---- MODULE Spec2Model ----
(***************************************************************************)
(* The single-threaded SOCKS5 proxy of proxy/src: the event loop of        *)
(* Server::run, the per-connection handlers of handler/readable.rs and     *)
(* handler/writable.rs, cleanup/interest utilities of util.rs and the DNS  *)
(* resolver of dns.rs.                                                     *)
(*                                                                         *)
(* The proxy state is the fields of Server, Connection and DnsResolver.    *)
(* The environment is the sockets: what each peer has sent and not yet     *)
(* been read (tx), what the proxy has written to it (rx), half-close and   *)
(* error flags, the listener backlog and the datagrams queued on the DNS   *)
(* socket.  One loop iteration is Poll (a batch of ready events), one      *)
(* Handle* step per event of the batch, and the timeout sweep, which runs  *)
(* in the step that handles the last event of the batch.                   *)
(***************************************************************************)
EXTENDS Integers, Sequences, FiniteSets, TLC

VARIABLES
    connections,         \* Server.connections : conn id -> Connection
    token_map,           \* Server.token_map   : token -> <<conn id, endpoint>>
    next_connection_id,  \* Server.next_connection_id
    next_token,          \* Server.next_token
    registry,            \* Poll registry: registered token -> interest set
    pending_requests,    \* DnsResolver.pending_requests : query id -> DnsRequest
    next_query_id,       \* DnsResolver.next_query_id
    batch,               \* events of the current poll batch not yet handled
    now,                 \* the clock read by Instant::now()
    future,              \* clients that have not connected yet
    backlog,             \* clients connected and waiting in the accept queue
    csock,               \* conn id -> the client socket as the peer sees it
    tsock,               \* conn id -> the target socket as the peer sees it
    hist,                \* conn id -> what the proxy has read and framed, and
                         \* the DNS events it has handled for the connection
    dns_wire,            \* queries sent to the resolver and not answered
    dns_inbox,           \* datagrams queued on the DNS socket
    upstream,            \* how the network lets an outbound connect end
    resolver             \* the shapes of reply the resolver gives

vars == <<connections, token_map, next_connection_id, next_token, registry,
          pending_requests, next_query_id, batch, now, future, backlog,
          csock, tsock, hist, dns_wire, dns_inbox, upstream, resolver>>

---------------------------------------------------------------------------
(* Bounds of the model. *)

\* clients that connect in one run of CrowdSpec
CrowdSize == 3
\* events one poll returns (the code's capacity is 1024)
MaxBatch == 2
\* datagrams queued on the DNS socket at once
MaxInbox == 1
\* the clock stops here
MaxTime == 6
\* the u16 query id wraps at 2^16; the model wraps at this modulus so that
\* wrap-around happens within the bounds
QueryIdModulus == 2
\* the relay read buffer is [0u8; 8192]; the model reads at most this many
\* bytes per relay read
BUFFER_SIZE == 2

---------------------------------------------------------------------------
(* Program constants. *)

SERVER == 0
DNS == 1
FirstConnectionId == 1
FirstToken == 2
FirstQueryId == 1
DNS_TIMEOUT == 5
SOCKS_VERSION == 5
NO_AUTH == 0
CMD_CONNECT == 1
ATYP_IPV4 == 1
ATYP_DOMAIN == 3
REP_SUCCESS == 0
REP_CONN_REFUSED == 5
HandshakeBufLen == 257
RequestBufLen == 512
NoToken == 0

READABLE == {"R"}
WRITABLE == {"W"}

create_success_response == <<SOCKS_VERSION, REP_SUCCESS, 0, 1, 0, 0, 0, 0, 0, 0>>
create_refused_response == <<SOCKS_VERSION, REP_CONN_REFUSED, 0, 1, 0, 0, 0, 0, 0, 0>>
create_auth_response == <<SOCKS_VERSION, NO_AUTH>>

---------------------------------------------------------------------------
(* Small helpers. *)

Min(a, b) == IF a < b THEN a ELSE b

\* a drain that removes the written bytes from the wrong end of the buffer
Drain_tail(buf, n) == SubSeq(buf, 1, Len(buf) - n)

Drain(buf, n) == SubSeq(buf, n + 1, Len(buf))

Insert(f, k, v) == [x \in (DOMAIN f) \cup {k} |-> IF x = k THEN v ELSE f[x]]

Remove(f, ks) == [x \in (DOMAIN f) \ ks |-> f[x]]

Ok(w) == [w |-> w, err |-> FALSE]

Err(w) == [w |-> w, err |-> TRUE]

EmptyMap == [x \in {} |-> 0]

---------------------------------------------------------------------------
(* What peers do.  A client behaviour is the steps the client takes in     *)
(* order, each once the client has received `wait` bytes from the proxy:   *)
(* it sends a segment, sends a segment and shuts its write half, resets    *)
(* the connection, or stalls: the send buffer of the proxy's socket towards *)
(* it is full from then on.  A target outcome is how the outbound connect  *)
(* ends and what the target then sends.                                    *)

GreetNoAuth == <<5, 1, 0>>
GreetNoMatch == <<5, 1, 2>>
GreetBadVersion == <<4, 1, 0>>
ReqIPv4 == <<5, 1, 0, 1, 127, 0, 0, 1, 0, 9>>
ReqDomain == <<5, 1, 0, 3, 1, 120, 0, 9>>
ReqBadCmd == <<5, 2, 0, 1, 127, 0, 0, 1, 0, 9>>
ReqBadVersion == <<4, 1, 0, 1, 127, 0, 0, 1, 0, 9>>
ReqBadAtyp == <<5, 1, 0, 4, 127, 0, 0, 1, 0, 9>>
Payload == <<65, 66>>
MorePayload == <<67>>
TargetPayload == <<80, 81>>

Send(data, wait) == [kind |-> "send", data |-> data, wait |-> wait]

SendFin(data, wait) == [kind |-> "fin", data |-> data, wait |-> wait]

Reset(wait) == [kind |-> "reset", data |-> <<>>, wait |-> wait]

Stall(wait) == [kind |-> "stall", data |-> <<>>, wait |-> wait]

TargetOutcomes ==
    {[kind |-> "sync_fail", tx |-> <<>>, fin |-> FALSE],
     [kind |-> "refused", tx |-> <<>>, fin |-> FALSE]}
    \cup {[kind |-> "up", tx |-> t, fin |-> f] :
            t \in {<<>>, TargetPayload}, f \in BOOLEAN}

NoOutcome == [kind |-> "none", tx |-> <<>>, fin |-> FALSE]

ResolverAddress == <<127, 0, 0, 1>>

\* what a datagram on the DNS socket can carry
ReplyShapes ==
    {[wellformed |-> TRUE, rcode |-> 0, answer |-> "A"],
     [wellformed |-> TRUE, rcode |-> 0, answer |-> "none"],
     [wellformed |-> TRUE, rcode |-> 0, answer |-> "CNAME"],
     [wellformed |-> TRUE, rcode |-> 3, answer |-> "none"],
     [wellformed |-> TRUE, rcode |-> 2, answer |-> "A"],
     [wellformed |-> FALSE, rcode |-> 0, answer |-> "none"]}

Datagram(src, id, qname, shape) ==
    [src |-> src, id |-> id, qname |-> qname, wellformed |-> shape.wellformed,
     rcode |-> shape.rcode, answer |-> shape.answer, addr |-> ResolverAddress]

---------------------------------------------------------------------------
(* Sockets. *)

\* a connected stream: tx is what the peer has sent and the proxy has not
\* read, fin whether the peer has shut its write half after tx, err a pending
\* socket error, rx what the proxy has written, rx_fin whether the proxy has
\* shut its write half, open whether the proxy still holds the fd; later is
\* what the client has still to send, full whether the send buffer towards
\* the client has no room (a write would block)
NewClientSocket(steps) ==
    [tx |-> <<>>, fin |-> FALSE, err |-> FALSE, rx |-> <<>>, rx_fin |-> FALSE,
     open |-> TRUE, later |-> steps, full |-> FALSE]

\* TcpStream::connect(addr): the connect is in progress; it is refused
\* (err is pending on the socket) or completes
NewTargetSocket(addr, o) ==
    [tx |-> o.tx, fin |-> o.fin, err |-> (o.kind = "refused"), rx |-> <<>>,
     rx_fin |-> FALSE, open |-> TRUE, addr |-> addr,
     connect_failed |-> (o.kind = "refused")]

\* read(&mut buf) with a buffer of cap bytes; k is how many bytes have arrived
SockRead(s, cap, k) ==
    IF s.err THEN [kind |-> "err", data |-> <<>>, sock |-> s]
    ELSE IF s.tx # <<>> /\ k > 0 THEN
        LET n == Min(Min(k, cap), Len(s.tx))
        IN  [kind |-> "data", data |-> SubSeq(s.tx, 1, n),
             sock |-> [s EXCEPT !.tx = Drain(s.tx, n)]]
    ELSE IF s.tx = <<>> /\ s.fin THEN [kind |-> "eof", data |-> <<>>, sock |-> s]
    ELSE [kind |-> "wouldblock", data |-> <<>>, sock |-> s]

\* write(buf): n is how many bytes the socket takes, 0 for would-block
SockWrite(s, buf, n) ==
    IF s.err \/ s.rx_fin THEN [kind |-> "err", n |-> 0, sock |-> s]
    ELSE IF n = 0 THEN [kind |-> "wouldblock", n |-> 0, sock |-> s]
    ELSE LET m == Min(n, Len(buf))
         IN  [kind |-> "ok", n |-> m,
              sock |-> [s EXCEPT !.rx = @ \o SubSeq(buf, 1, m)]]

\* shutdown(Shutdown::Write)
SockShutdownWrite(s) == [s EXCEPT !.rx_fin = TRUE]

\* dropping the stream closes the fd
SockClose(s) == [s EXCEPT !.open = FALSE]

SocketReadable(s) == s.err \/ s.tx # <<>> \/ s.fin

\* conn.client.write_all(&frame): the frame is written whole, or the first
\* write fails or would block and write_all returns that error
client_write_all(w, id, frame) ==
    LET r == SockWrite(w.csock[id], frame,
                       IF w.csock[id].full THEN 0 ELSE Len(frame))
    IN  IF r.kind = "ok"
        THEN Ok([w EXCEPT !.csock[id] = r.sock,
                          !.hist[id].frames = Append(@, frame)])
        ELSE Err(w)

---------------------------------------------------------------------------
(* connection.rs *)

NewConnection(client_token) ==
    [client_token |-> client_token, target |-> FALSE, target_token |-> NoToken,
     state |-> "Handshake", client_buf |-> <<>>, client_to_target |-> <<>>,
     target_to_client |-> <<>>, client_closed |-> FALSE,
     target_closed |-> FALSE, requested_endpoint |-> <<>>]

\* a close test that only looks at the target side
should_close_target_only(conn) ==
    conn.target_closed /\ conn.client_to_target = <<>>

should_close(conn) ==
    \/ conn.client_closed /\ conn.target_to_client = <<>>
    \/ conn.target_closed /\ conn.client_to_target = <<>>

NewHistory ==
    [hs |-> <<>>, req |-> <<>>, tun |-> <<>>, t_read |-> <<>>, frames |-> <<>>,
     dns |-> <<>>]

---------------------------------------------------------------------------
(* socks5/protocol.rs *)

Incomplete == [kind |-> "incomplete", addr |-> <<>>, port |-> 0, domain |-> <<>>]

ProtocolError == [kind |-> "error", addr |-> <<>>, port |-> 0, domain |-> <<>>]

from_be_bytes(hi, lo) == hi * 256 + lo

parse_ipv4_request(buf) ==
    IF Len(buf) < 10 THEN Incomplete
    ELSE [kind |-> "resolved", addr |-> SubSeq(buf, 5, 8),
          port |-> from_be_bytes(buf[9], buf[10]), domain |-> <<>>]

parse_domain_request(buf) ==
    IF Len(buf) < 5 THEN Incomplete
    ELSE LET len == buf[5]
         IN  IF Len(buf) < 5 + len + 2 THEN Incomplete
             ELSE [kind |-> "needs_resolution", addr |-> <<>>,
                   port |-> from_be_bytes(buf[5 + len + 1], buf[5 + len + 2]),
                   domain |-> SubSeq(buf, 6, 5 + len)]

parse_request(buf) ==
    IF Len(buf) < 4 THEN Incomplete
    ELSE IF buf[1] # SOCKS_VERSION THEN ProtocolError
    ELSE IF buf[2] # CMD_CONNECT THEN ProtocolError
    ELSE IF buf[4] = ATYP_IPV4 THEN parse_ipv4_request(buf)
    ELSE IF buf[4] = ATYP_DOMAIN THEN parse_domain_request(buf)
    ELSE ProtocolError

---------------------------------------------------------------------------
(* dns.rs.  Handlers take the world w (the variables a handler can touch)  *)
(* and return the new world, with err set when the handler returns Err.    *)

\* Name::from_utf8(&domain): labels are non-empty
NameFromUtf8Ok(domain) ==
    /\ domain # <<>>
    /\ domain[1] # 46
    /\ \A j \in 1..(Len(domain) - 1) : ~(domain[j] = 46 /\ domain[j + 1] = 46)

wrapping_add(q) == (q + 1) % QueryIdModulus

\* a resolve that takes an id only once the query has been sent
resolve_counts_successes(w, t, domain, port, conn_id, sent) ==
    LET query_id == w.next_query_id
    IN  IF ~NameFromUtf8Ok(domain) THEN Err(w)
        ELSE IF ~sent THEN Err(w)
        ELSE Ok([w EXCEPT
                 !.next_query_id = wrapping_add(query_id),
                 !.dns_wire = @ \cup {[id |-> query_id, qname |-> domain]},
                 !.pending_requests =
                     Insert(@, query_id,
                            [domain |-> domain, port |-> port,
                             conn_id |-> conn_id, timestamp |-> t])])

\* DnsResolver::resolve; sent is whether send_to succeeds
resolve(w, t, domain, port, conn_id, sent) ==
    LET query_id == w.next_query_id
        w1 == [w EXCEPT !.next_query_id = wrapping_add(query_id)]
    IN  IF ~NameFromUtf8Ok(domain) THEN Err(w1)
        ELSE IF ~sent THEN Err(w1)
        ELSE Ok([w1 EXCEPT
                 !.dns_wire = @ \cup {[id |-> query_id, qname |-> domain]},
                 !.pending_requests =
                     Insert(@, query_id,
                            [domain |-> domain, port |-> port,
                             conn_id |-> conn_id, timestamp |-> t])])

ResolvedEvent(request, ipv4) ==
    [kind |-> "Resolved", conn_id |-> request.conn_id,
     resolved_addr |-> <<ipv4, request.port>>,
     display |-> <<request.domain, request.port>>, reason |-> ""]

FailedEvent(request, reason) ==
    [kind |-> "Failed", conn_id |-> request.conn_id, resolved_addr |-> <<>>,
     display |-> <<request.domain, request.port>>, reason |-> reason]

\* a receive loop that does not look at where a datagram comes from
RECURSIVE handle_responses_any_source(_, _, _)
handle_responses_any_source(pending, inbox, events) ==
    IF inbox = <<>> THEN [pending |-> pending, events |-> events]
    ELSE LET d == Head(inbox)
         IN  IF ~d.wellformed
             THEN handle_responses_any_source(pending, Tail(inbox), events)
             ELSE IF d.id \in DOMAIN pending
             THEN LET request == pending[d.id]
                      event == IF d.answer = "A"
                               THEN ResolvedEvent(request, d.addr)
                               ELSE FailedEvent(request, "No A record in response")
                  IN  handle_responses_any_source(Remove(pending, {d.id}), Tail(inbox),
                                                  Append(events, event))
             ELSE handle_responses_any_source(pending, Tail(inbox), events)

\* a receive loop that looks the request up and leaves it in the map
RECURSIVE handle_responses_keeps_pending(_, _, _)
handle_responses_keeps_pending(pending, inbox, events) ==
    IF inbox = <<>> THEN [pending |-> pending, events |-> events]
    ELSE LET d == Head(inbox)
         IN  IF d.src # "resolver"
             THEN handle_responses_keeps_pending(pending, Tail(inbox), events)
             ELSE IF ~d.wellformed
             THEN handle_responses_keeps_pending(pending, Tail(inbox), events)
             ELSE IF d.id \in DOMAIN pending
             THEN LET request == pending[d.id]
                      event == IF d.answer = "A"
                               THEN ResolvedEvent(request, d.addr)
                               ELSE FailedEvent(request, "No A record in response")
                  IN  handle_responses_keeps_pending(pending, Tail(inbox),
                                                     Append(events, event))
             ELSE handle_responses_keeps_pending(pending, Tail(inbox), events)

\* DnsResolver::handle_responses: the recv_from loop over the queued datagrams
RECURSIVE handle_responses(_, _, _)
handle_responses(pending, inbox, events) ==
    IF inbox = <<>> THEN [pending |-> pending, events |-> events]
    ELSE LET d == Head(inbox)
         IN  IF d.src # "resolver"
             THEN handle_responses(pending, Tail(inbox), events)
             ELSE IF ~d.wellformed
             THEN handle_responses(pending, Tail(inbox), events)
             ELSE IF d.id \in DOMAIN pending
             THEN LET request == pending[d.id]
                      event == IF d.answer = "A"
                               THEN ResolvedEvent(request, d.addr)
                               ELSE FailedEvent(request, "No A record in response")
                  IN  handle_responses(Remove(pending, {d.id}), Tail(inbox),
                                       Append(events, event))
             ELSE handle_responses(pending, Tail(inbox), events)

Expired(pending, t) ==
    {q \in DOMAIN pending : t - pending[q].timestamp >= DNS_TIMEOUT}

\* DnsResolver::cleanup_expired: the retained map and the requests that expired
cleanup_expired(pending, t) ==
    [pending |-> Remove(pending, Expired(pending, t)),
     expired |-> {FailedEvent(pending[q], "DNS query timed out") :
                    q \in Expired(pending, t)}]

---------------------------------------------------------------------------
(* util.rs *)

reregister(w, token, interest) ==
    [w EXCEPT !.registry = [x \in DOMAIN @ |-> IF x = token THEN interest ELSE @[x]]]

\* a policy that never asks for Writable on the client socket
update_interests_client_read_only(w, id) ==
    LET conn == w.connections[id]
        target_interest ==
            IF conn.state = "Connecting" \/ conn.client_to_target # <<>>
            THEN READABLE \cup WRITABLE ELSE READABLE
        w1 == reregister(w, conn.client_token, READABLE)
    IN  IF conn.target /\ conn.target_token # NoToken
        THEN reregister(w1, conn.target_token, target_interest)
        ELSE w1

update_interests(w, id) ==
    LET conn == w.connections[id]
        client_interest ==
            IF conn.target_to_client # <<>> THEN READABLE \cup WRITABLE ELSE READABLE
        target_interest ==
            IF conn.state = "Connecting" \/ conn.client_to_target # <<>>
            THEN READABLE \cup WRITABLE ELSE READABLE
        w1 == reregister(w, conn.client_token, client_interest)
    IN  IF conn.target /\ conn.target_token # NoToken
        THEN reregister(w1, conn.target_token, target_interest)
        ELSE w1

\* a purge that drops the entries of every connection up to conn_id
retain_later(tm, conn_id) ==
    [t \in {x \in DOMAIN tm : tm[x][1] > conn_id} |-> tm[t]]

\* token_map.retain(|_, (id, _)| *id != conn_id)
retain_other(tm, conn_id) ==
    [t \in {x \in DOMAIN tm : tm[x][1] # conn_id} |-> tm[t]]

\* a teardown that forgets to purge the token index
cleanup_connection_keeps_index(w, conn_id) ==
    IF conn_id \in DOMAIN w.connections
    THEN LET conn == w.connections[conn_id]
             gone == {conn.client_token} \cup
                     (IF conn.target THEN {conn.target_token} ELSE {})
         IN  [w EXCEPT
              !.connections = Remove(@, {conn_id}),
              !.registry = Remove(@, gone),
              !.csock[conn_id] = SockClose(@),
              !.tsock = IF conn.target
                        THEN [@ EXCEPT ![conn_id] = SockClose(@)] ELSE @]
    ELSE w

cleanup_connection(w, conn_id) ==
    IF conn_id \in DOMAIN w.connections
    THEN LET conn == w.connections[conn_id]
             gone == {conn.client_token} \cup
                     (IF conn.target THEN {conn.target_token} ELSE {})
         IN  [w EXCEPT
              !.connections = Remove(@, {conn_id}),
              !.registry = Remove(@, gone),
              !.csock[conn_id] = SockClose(@),
              !.tsock = IF conn.target
                        THEN [@ EXCEPT ![conn_id] = SockClose(@)] ELSE @,
              !.token_map = retain_other(@, conn_id)]
    ELSE [w EXCEPT !.token_map = retain_other(@, conn_id)]

---------------------------------------------------------------------------
(* handler/readable.rs.  k is how many bytes the read finds, o how the     *)
(* outbound connect ends, sent whether the DNS send_to succeeds.           *)

\* a handshake that also rejects a method list without no-auth
handle_handshake_needs_no_auth(w, id, k) ==
    LET conn == w.connections[id]
        rd == SockRead(w.csock[id], HandshakeBufLen, k)
    IN  IF rd.kind = "eof"
        THEN Ok([w EXCEPT !.connections[id].client_closed = TRUE])
        ELSE IF rd.kind = "data"
        THEN LET buf == conn.client_buf \o rd.data
                 w1 == [w EXCEPT !.csock[id] = rd.sock,
                                 !.hist[id].hs = @ \o rd.data,
                                 !.connections[id].client_buf = buf]
             IN  IF Len(buf) >= 2
                 THEN LET nmethods == buf[2]
                      IN  IF Len(buf) >= 2 + nmethods
                          THEN IF buf[1] # SOCKS_VERSION \/ \A j \in 3..(2 + nmethods) : buf[j] # NO_AUTH THEN Err(w1)
                               ELSE LET wr == client_write_all(w1, id, create_auth_response)
                                    IN  IF wr.err THEN wr
                                        ELSE Ok([wr.w EXCEPT
                                                 !.connections[id].client_buf = <<>>,
                                                 !.connections[id].state = "Request"])
                          ELSE Ok(w1)
                 ELSE Ok(w1)
        ELSE IF rd.kind = "wouldblock" THEN Ok(w)
        ELSE Err(w)

\* a handshake that does not look at the version byte
handle_handshake_any_version(w, id, k) ==
    LET conn == w.connections[id]
        rd == SockRead(w.csock[id], HandshakeBufLen, k)
    IN  IF rd.kind = "eof"
        THEN Ok([w EXCEPT !.connections[id].client_closed = TRUE])
        ELSE IF rd.kind = "data"
        THEN LET buf == conn.client_buf \o rd.data
                 w1 == [w EXCEPT !.csock[id] = rd.sock,
                                 !.hist[id].hs = @ \o rd.data,
                                 !.connections[id].client_buf = buf]
             IN  IF Len(buf) >= 2
                 THEN LET nmethods == buf[2]
                      IN  IF Len(buf) >= 2 + nmethods
                          THEN IF FALSE THEN Err(w1)
                               ELSE LET wr == client_write_all(w1, id, create_auth_response)
                                    IN  IF wr.err THEN wr
                                        ELSE Ok([wr.w EXCEPT
                                                 !.connections[id].client_buf = <<>>,
                                                 !.connections[id].state = "Request"])
                          ELSE Ok(w1)
                 ELSE Ok(w1)
        ELSE IF rd.kind = "wouldblock" THEN Ok(w)
        ELSE Err(w)

handle_handshake(w, id, k) ==
    LET conn == w.connections[id]
        rd == SockRead(w.csock[id], HandshakeBufLen, k)
    IN  IF rd.kind = "eof"
        THEN Ok([w EXCEPT !.connections[id].client_closed = TRUE])
        ELSE IF rd.kind = "data"
        THEN LET buf == conn.client_buf \o rd.data
                 w1 == [w EXCEPT !.csock[id] = rd.sock,
                                 !.hist[id].hs = @ \o rd.data,
                                 !.connections[id].client_buf = buf]
             IN  IF Len(buf) >= 2
                 THEN LET nmethods == buf[2]
                      IN  IF Len(buf) >= 2 + nmethods
                          THEN IF buf[1] # SOCKS_VERSION THEN Err(w1)
                               ELSE LET wr == client_write_all(w1, id, create_auth_response)
                                    IN  IF wr.err THEN wr
                                        ELSE Ok([wr.w EXCEPT
                                                 !.connections[id].client_buf = <<>>,
                                                 !.connections[id].state = "Request"])
                          ELSE Ok(w1)
                 ELSE Ok(w1)
        ELSE IF rd.kind = "wouldblock" THEN Ok(w)
        ELSE Err(w)

\* a connect arm that does not store the target's token in the connection
request_connect_ok_no_token(w, id, addr, o) ==
    LET target_token == w.next_token
    IN  [w EXCEPT
         !.next_token = @ + 1,
         !.registry = Insert(@, target_token, WRITABLE),
         !.token_map = Insert(@, target_token, <<id, "Target">>),
         !.tsock = Insert(@, id, NewTargetSocket(addr, o)),
         !.connections[id].target = TRUE,
         !.connections[id].state = "Connecting",
         !.connections[id].client_buf = <<>>]

\* the Ok arm of TcpStream::connect in handle_request
request_connect_ok(w, id, addr, o) ==
    LET target_token == w.next_token
    IN  [w EXCEPT
         !.next_token = @ + 1,
         !.registry = Insert(@, target_token, WRITABLE),
         !.token_map = Insert(@, target_token, <<id, "Target">>),
         !.tsock = Insert(@, id, NewTargetSocket(addr, o)),
         !.connections[id].target = TRUE,
         !.connections[id].target_token = target_token,
         !.connections[id].state = "Connecting",
         !.connections[id].client_buf = <<>>]

\* write the refused reply, then return Err
refuse_and_fail(w, id) == Err(client_write_all(w, id, create_refused_response).w)

\* a request handler that resolves the name itself and connects at once
handle_request_resolves_inline(w, t, id, k, o, sent) ==
    LET conn == w.connections[id]
        rd == SockRead(w.csock[id], RequestBufLen, k)
    IN  IF rd.kind = "eof"
        THEN Ok([w EXCEPT !.connections[id].client_closed = TRUE])
        ELSE IF rd.kind = "data"
        THEN LET buf == conn.client_buf \o rd.data
                 w1 == [w EXCEPT !.csock[id] = rd.sock,
                                 !.hist[id].req = @ \o rd.data,
                                 !.connections[id].client_buf = buf]
                 request_info == parse_request(buf)
             IN  IF request_info.kind = "error" THEN Err(w1)
                 ELSE IF request_info.kind = "resolved"
                 THEN LET w2 == [w1 EXCEPT !.connections[id].requested_endpoint =
                                     <<request_info.addr, request_info.port>>]
                      IN  IF o.kind # "sync_fail"
                          THEN Ok(request_connect_ok(
                                    w2, id, <<request_info.addr, request_info.port>>, o))
                          ELSE refuse_and_fail(w2, id)
                 ELSE IF request_info.kind = "needs_resolution"
                 THEN IF o.kind # "sync_fail"
                      THEN Ok(request_connect_ok(
                                w1, id, <<ResolverAddress, request_info.port>>, o))
                      ELSE refuse_and_fail(w1, id)
                 ELSE Ok(w1)
        ELSE IF rd.kind = "wouldblock" THEN Ok(w)
        ELSE Err(w)

\* a request handler that waits for an answer even when the query was not
\* sent
handle_request_ignores_send_error(w, t, id, k, o, sent) ==
    LET conn == w.connections[id]
        rd == SockRead(w.csock[id], RequestBufLen, k)
    IN  IF rd.kind = "eof"
        THEN Ok([w EXCEPT !.connections[id].client_closed = TRUE])
        ELSE IF rd.kind = "data"
        THEN LET buf == conn.client_buf \o rd.data
                 w1 == [w EXCEPT !.csock[id] = rd.sock,
                                 !.hist[id].req = @ \o rd.data,
                                 !.connections[id].client_buf = buf]
                 request_info == parse_request(buf)
             IN  IF request_info.kind = "error" THEN Err(w1)
                 ELSE IF request_info.kind = "resolved"
                 THEN LET w2 == [w1 EXCEPT !.connections[id].requested_endpoint =
                                     <<request_info.addr, request_info.port>>]
                      IN  IF o.kind # "sync_fail"
                          THEN Ok(request_connect_ok(
                                    w2, id, <<request_info.addr, request_info.port>>, o))
                          ELSE refuse_and_fail(w2, id)
                 ELSE IF request_info.kind = "needs_resolution"
                 THEN LET r == resolve(w1, t, request_info.domain,
                                       request_info.port, id, sent)
                      IN  Ok([r.w EXCEPT !.connections[id].state = "Resolving",
                                         !.connections[id].client_buf = <<>>])
                 ELSE Ok(w1)
        ELSE IF rd.kind = "wouldblock" THEN Ok(w)
        ELSE Err(w)

\* a request handler that parses what the last read returned
handle_request_parses_segment(w, t, id, k, o, sent) ==
    LET conn == w.connections[id]
        rd == SockRead(w.csock[id], RequestBufLen, k)
    IN  IF rd.kind = "eof"
        THEN Ok([w EXCEPT !.connections[id].client_closed = TRUE])
        ELSE IF rd.kind = "data"
        THEN LET buf == conn.client_buf \o rd.data
                 w1 == [w EXCEPT !.csock[id] = rd.sock,
                                 !.hist[id].req = @ \o rd.data,
                                 !.connections[id].client_buf = buf]
                 request_info == parse_request(rd.data)
             IN  IF request_info.kind = "error" THEN Err(w1)
                 ELSE IF request_info.kind = "resolved"
                 THEN LET w2 == [w1 EXCEPT !.connections[id].requested_endpoint =
                                     <<request_info.addr, request_info.port>>]
                      IN  IF o.kind # "sync_fail"
                          THEN Ok(request_connect_ok(
                                    w2, id, <<request_info.addr, request_info.port>>, o))
                          ELSE refuse_and_fail(w2, id)
                 ELSE IF request_info.kind = "needs_resolution"
                 THEN LET r == resolve(w1, t, request_info.domain,
                                       request_info.port, id, sent)
                      IN  IF ~r.err
                          THEN Ok([r.w EXCEPT !.connections[id].state = "Resolving",
                                              !.connections[id].client_buf = <<>>])
                          ELSE refuse_and_fail(r.w, id)
                 ELSE Ok(w1)
        ELSE IF rd.kind = "wouldblock" THEN Ok(w)
        ELSE Err(w)

handle_request(w, t, id, k, o, sent) ==
    LET conn == w.connections[id]
        rd == SockRead(w.csock[id], RequestBufLen, k)
    IN  IF rd.kind = "eof"
        THEN Ok([w EXCEPT !.connections[id].client_closed = TRUE])
        ELSE IF rd.kind = "data"
        THEN LET buf == conn.client_buf \o rd.data
                 w1 == [w EXCEPT !.csock[id] = rd.sock,
                                 !.hist[id].req = @ \o rd.data,
                                 !.connections[id].client_buf = buf]
                 request_info == parse_request(buf)
             IN  IF request_info.kind = "error" THEN Err(w1)
                 ELSE IF request_info.kind = "resolved"
                 THEN LET w2 == [w1 EXCEPT !.connections[id].requested_endpoint =
                                     <<request_info.addr, request_info.port>>]
                      IN  IF o.kind # "sync_fail"
                          THEN Ok(request_connect_ok(
                                    w2, id, <<request_info.addr, request_info.port>>, o))
                          ELSE refuse_and_fail(w2, id)
                 ELSE IF request_info.kind = "needs_resolution"
                 THEN LET r == resolve(w1, t, request_info.domain,
                                       request_info.port, id, sent)
                      IN  IF ~r.err
                          THEN Ok([r.w EXCEPT !.connections[id].state = "Resolving",
                                              !.connections[id].client_buf = <<>>])
                          ELSE refuse_and_fail(r.w, id)
                 ELSE Ok(w1)
        ELSE IF rd.kind = "wouldblock" THEN Ok(w)
        ELSE Err(w)

handle_client_data(w, id, k) ==
    LET conn == w.connections[id]
        rd == SockRead(w.csock[id], BUFFER_SIZE, k)
    IN  IF rd.kind = "eof"
        THEN LET w1 == [w EXCEPT !.connections[id].client_closed = TRUE]
             IN  IF conn.target
                 THEN Ok([w1 EXCEPT !.tsock[id] = SockShutdownWrite(@)])
                 ELSE Ok(w1)
        ELSE IF rd.kind = "data"
        THEN LET w1 == [w EXCEPT !.csock[id] = rd.sock,
                                 !.hist[id].tun = @ \o rd.data,
                                 !.connections[id].client_to_target = @ \o rd.data]
             IN  IF conn.target /\ conn.target_token # NoToken
                 THEN Ok(reregister(w1, conn.target_token, READABLE \cup WRITABLE))
                 ELSE Ok(w1)
        ELSE IF rd.kind = "wouldblock" THEN Ok(w)
        ELSE Err(w)

handle_target_readable(w, id, k) ==
    LET conn == w.connections[id]
    IN  IF conn.target
        THEN LET rd == SockRead(w.tsock[id], BUFFER_SIZE, k)
             IN  IF rd.kind = "eof"
                 THEN Ok([w EXCEPT !.connections[id].target_closed = TRUE,
                                   !.csock[id] = SockShutdownWrite(@)])
                 ELSE IF rd.kind = "data"
                 THEN Ok(reregister(
                          [w EXCEPT !.tsock[id] = rd.sock,
                                    !.hist[id].t_read = @ \o rd.data,
                                    !.connections[id].target_to_client = @ \o rd.data],
                          conn.client_token, READABLE \cup WRITABLE))
                 ELSE IF rd.kind = "wouldblock" THEN Ok(w)
                 ELSE Err(w)
        ELSE Ok(w)

\* a dispatch that relays whatever arrives once the handshake is done
handle_client_readable_relays_early(w, t, id, k, o, sent) ==
    LET state == w.connections[id].state
    IN  IF state = "Handshake" THEN handle_handshake(w, id, k)
        ELSE IF state \in {"Request", "Tunneling"} THEN handle_client_data(w, id, k)
        ELSE Ok(w)

\* a dispatch that reads tunnel data while the target is not yet connected
handle_client_readable_reads_always(w, t, id, k, o, sent) ==
    LET state == w.connections[id].state
    IN  IF state = "Handshake" THEN handle_handshake(w, id, k)
        ELSE IF state = "Request" THEN handle_request(w, t, id, k, o, sent)
        ELSE handle_client_data(w, id, k)

handle_client_readable(w, t, id, k, o, sent) ==
    LET state == w.connections[id].state
    IN  IF state = "Handshake" THEN handle_handshake(w, id, k)
        ELSE IF state = "Request" THEN handle_request(w, t, id, k, o, sent)
        ELSE IF state = "Tunneling" THEN handle_client_data(w, id, k)
        ELSE Ok(w)

handle_readable(w, t, id, endpoint, k, o, sent) ==
    IF endpoint = "Client" THEN handle_client_readable(w, t, id, k, o, sent)
    ELSE handle_target_readable(w, id, k)

---------------------------------------------------------------------------
(* handler/writable.rs.  n is how many bytes the write takes (0: would     *)
(* block).                                                                 *)

handle_client_writable(w, id, n) ==
    LET conn == w.connections[id]
    IN  IF conn.state = "Tunneling" /\ conn.target_to_client # <<>>
        THEN LET wr == SockWrite(w.csock[id], conn.target_to_client, n)
             IN  IF wr.kind = "ok"
                 THEN Ok([w EXCEPT !.csock[id] = wr.sock,
                                   !.connections[id].target_to_client = Drain(@, wr.n)])
                 ELSE IF wr.kind = "wouldblock" THEN Ok(w)
                 ELSE Err(w)
        ELSE Ok(w)

\* a handler that opens the tunnel without telling the client
handle_target_writable_silent(w, id, n) ==
    LET conn == w.connections[id]
    IN  IF conn.state = "Connecting"
        THEN LET w1 == reregister(
                           [w EXCEPT !.connections[id].state = "Tunneling"],
                           conn.client_token, READABLE)
             IN  IF conn.target /\ conn.target_token # NoToken
                 THEN Ok(reregister(w1, conn.target_token, READABLE))
                 ELSE Ok(w1)
        ELSE IF conn.state = "Tunneling"
        THEN IF conn.target /\ conn.client_to_target # <<>>
             THEN LET wr == SockWrite(w.tsock[id], conn.client_to_target, n)
                  IN  IF wr.kind = "ok"
                      THEN Ok([w EXCEPT !.tsock[id] = wr.sock,
                                        !.connections[id].client_to_target = Drain(@, wr.n)])
                      ELSE IF wr.kind = "wouldblock" THEN Ok(w)
                      ELSE Err(w)
             ELSE Ok(w)
        ELSE Ok(w)

handle_target_writable(w, id, n) ==
    LET conn == w.connections[id]
    IN  IF conn.state = "Connecting"
        THEN LET wr == client_write_all(w, id, create_success_response)
             IN  IF wr.err THEN wr
                 ELSE LET w1 == reregister(
                                  [wr.w EXCEPT !.connections[id].state = "Tunneling"],
                                  conn.client_token, READABLE)
                      IN  IF conn.target /\ conn.target_token # NoToken
                          THEN Ok(reregister(w1, conn.target_token, READABLE))
                          ELSE Ok(w1)
        ELSE IF conn.state = "Tunneling"
        THEN IF conn.target /\ conn.client_to_target # <<>>
             THEN LET wr == SockWrite(w.tsock[id], conn.client_to_target, n)
                  IN  IF wr.kind = "ok"
                      THEN Ok([w EXCEPT !.tsock[id] = wr.sock,
                                        !.connections[id].client_to_target = Drain(@, wr.n)])
                      ELSE IF wr.kind = "wouldblock" THEN Ok(w)
                      ELSE Err(w)
             ELSE Ok(w)
        ELSE Ok(w)

handle_writable(w, id, endpoint, n) ==
    LET r == IF endpoint = "Client" THEN handle_client_writable(w, id, n)
             ELSE handle_target_writable(w, id, n)
    IN  IF r.err THEN r ELSE Ok(update_interests(r.w, id))

---------------------------------------------------------------------------
(* server.rs *)

\* an accept loop that hands out the smallest token no live endpoint holds
RECURSIVE accept_connections_reuses_tokens(_)
accept_connections_reuses_tokens(w) ==
    IF w.backlog = <<>> THEN w
    ELSE LET free == (FirstToken..w.next_token) \ DOMAIN w.token_map
             client_token == CHOOSE t \in free : \A u \in free : t <= u
             conn_id == w.next_connection_id
         IN  accept_connections_reuses_tokens(
                 [w EXCEPT
                  !.backlog = Tail(@),
                  !.next_token = IF client_token = @ THEN @ + 1 ELSE @,
                  !.next_connection_id = @ + 1,
                  !.registry = Insert(@, client_token, READABLE),
                  !.token_map = Insert(@, client_token, <<conn_id, "Client">>),
                  !.connections = Insert(@, conn_id, NewConnection(client_token)),
                  !.csock = Insert(@, conn_id, NewClientSocket(Head(w.backlog))),
                  !.hist = Insert(@, conn_id, NewHistory)])

\* an accept that takes one client for each readiness event
accept_connections_once(w) ==
    IF w.backlog = <<>> THEN w
    ELSE LET client_token == w.next_token
             conn_id == w.next_connection_id
         IN  [w EXCEPT
              !.backlog = Tail(@),
              !.next_token = @ + 1,
              !.next_connection_id = @ + 1,
              !.registry = Insert(@, client_token, READABLE),
              !.token_map = Insert(@, client_token, <<conn_id, "Client">>),
              !.connections = Insert(@, conn_id, NewConnection(client_token)),
              !.csock = Insert(@, conn_id, NewClientSocket(Head(w.backlog))),
              !.hist = Insert(@, conn_id, NewHistory)]

\* Server::accept_connections: accept until the queue is empty (WouldBlock)
RECURSIVE accept_connections(_)
accept_connections(w) ==
    IF w.backlog = <<>> THEN w
    ELSE LET client_token == w.next_token
             conn_id == w.next_connection_id
         IN  accept_connections(
                 [w EXCEPT
                  !.backlog = Tail(@),
                  !.next_token = @ + 1,
                  !.next_connection_id = @ + 1,
                  !.registry = Insert(@, client_token, READABLE),
                  !.token_map = Insert(@, client_token, <<conn_id, "Client">>),
                  !.connections = Insert(@, conn_id, NewConnection(client_token)),
                  !.csock = Insert(@, conn_id, NewClientSocket(Head(w.backlog))),
                  !.hist = Insert(@, conn_id, NewHistory)])

\* the Ok arm of TcpStream::connect in handle_dns_event
dns_connect_ok(w, conn_id, addr, o) ==
    LET target_token == w.next_token
    IN  [w EXCEPT
         !.next_token = @ + 1,
         !.registry = Insert(@, target_token, WRITABLE),
         !.token_map = Insert(@, target_token, <<conn_id, "Target">>),
         !.tsock = Insert(@, conn_id, NewTargetSocket(addr, o)),
         !.connections[conn_id].target = TRUE,
         !.connections[conn_id].target_token = target_token,
         !.connections[conn_id].state = "Connecting"]

\* a refusal that leaves the connection in place when the write fails
refuse_and_cleanup_gives_up(w, conn_id) ==
    LET wr == client_write_all(w, conn_id, create_refused_response)
    IN  IF wr.err THEN w ELSE cleanup_connection(wr.w, conn_id)

\* let _ = conn.client.write_all(&refused); then cleanup_connection
refuse_and_cleanup(w, conn_id) ==
    cleanup_connection(client_write_all(w, conn_id, create_refused_response).w, conn_id)

\* what hist keeps of a DNS event
EventLabel(event) == IF event.kind = "Resolved" THEN "Resolved" ELSE event.reason

\* a handler that drops the connection of a failed resolution without a reply
handle_dns_event_silent(w, event, o) ==
    IF event.conn_id \notin DOMAIN w.connections THEN w
    ELSE LET w0 == [w EXCEPT !.hist[event.conn_id].dns =
                        Append(@, EventLabel(event))]
         IN  IF event.kind = "Resolved"
             THEN LET w1 == [w0 EXCEPT !.connections[event.conn_id].requested_endpoint =
                                 event.display]
                  IN  IF o.kind # "sync_fail"
                      THEN dns_connect_ok(w1, event.conn_id, event.resolved_addr, o)
                      ELSE refuse_and_cleanup(w1, event.conn_id)
             ELSE cleanup_connection(w0, event.conn_id)

handle_dns_event(w, event, o) ==
    IF event.conn_id \notin DOMAIN w.connections THEN w
    ELSE LET w0 == [w EXCEPT !.hist[event.conn_id].dns =
                        Append(@, EventLabel(event))]
         IN  IF event.kind = "Resolved"
             THEN LET w1 == [w0 EXCEPT !.connections[event.conn_id].requested_endpoint =
                                 event.display]
                  IN  IF o.kind # "sync_fail"
                      THEN dns_connect_ok(w1, event.conn_id, event.resolved_addr, o)
                      ELSE refuse_and_cleanup(w1, event.conn_id)
             ELSE refuse_and_cleanup(w0, event.conn_id)

RECURSIVE handle_dns_events(_, _, _)
handle_dns_events(w, events, o) ==
    IF events = <<>> THEN w
    ELSE handle_dns_events(handle_dns_event(w, Head(events), o), Tail(events), o)

\* Server::handle_dns_socket
handle_dns_socket(w, o) ==
    LET r == handle_responses(w.pending_requests, w.dns_inbox, <<>>)
    IN  handle_dns_events([w EXCEPT !.pending_requests = r.pending,
                                    !.dns_inbox = <<>>],
                          r.events, o)

\* the events of cleanup_expired, each handled by handle_dns_event; a Failed
\* event touches its own connection only, so the order does not matter
RECURSIVE handle_expired(_, _)
handle_expired(w, expired) ==
    IF expired = {} THEN w
    ELSE LET event == CHOOSE e \in expired : TRUE
         IN  handle_expired(handle_dns_event(w, event, NoOutcome), expired \ {event})

\* Server::run, lines 71-73: the timeout sweep that ends a loop iteration
sweep(w, t) ==
    LET r == cleanup_expired(w.pending_requests, t)
    IN  handle_expired([w EXCEPT !.pending_requests = r.pending], r.expired)

\* an event handler that closes on the teardown predicate alone
handle_connection_event_ignores_errors(w, t, e, k, o, sent, n) ==
    IF e.token \notin DOMAIN w.token_map THEN w
    ELSE LET conn_id == w.token_map[e.token][1]
             endpoint == w.token_map[e.token][2]
         IN  IF conn_id \notin DOMAIN w.connections THEN w
             ELSE LET r1 == IF e.readable
                            THEN handle_readable(w, t, conn_id, endpoint, k, o, sent)
                            ELSE Ok(w)
                      r2 == IF e.writable
                            THEN handle_writable(r1.w, conn_id, endpoint, n)
                            ELSE Ok(r1.w)
                      close == should_close(r2.w.connections[conn_id])
                  IN  IF close THEN cleanup_connection(r2.w, conn_id) ELSE r2.w

\* Server::handle_connection_event for event e
handle_connection_event(w, t, e, k, o, sent, n) ==
    IF e.token \notin DOMAIN w.token_map THEN w
    ELSE LET conn_id == w.token_map[e.token][1]
             endpoint == w.token_map[e.token][2]
         IN  IF conn_id \notin DOMAIN w.connections THEN w
             ELSE LET r1 == IF e.readable
                            THEN handle_readable(w, t, conn_id, endpoint, k, o, sent)
                            ELSE Ok(w)
                      r2 == IF e.writable
                            THEN handle_writable(r1.w, conn_id, endpoint, n)
                            ELSE Ok(r1.w)
                      close == r1.err \/ r2.err \/ should_close(r2.w.connections[conn_id])
                  IN  IF close THEN cleanup_connection(r2.w, conn_id) ELSE r2.w

---------------------------------------------------------------------------
(* The event loop. *)

World ==
    [connections |-> connections, token_map |-> token_map,
     next_connection_id |-> next_connection_id, next_token |-> next_token,
     registry |-> registry, pending_requests |-> pending_requests,
     next_query_id |-> next_query_id, backlog |-> backlog, csock |-> csock,
     tsock |-> tsock, hist |-> hist, dns_wire |-> dns_wire,
     dns_inbox |-> dns_inbox]

Commit(w) ==
    /\ connections' = w.connections
    /\ token_map' = w.token_map
    /\ next_connection_id' = w.next_connection_id
    /\ next_token' = w.next_token
    /\ registry' = w.registry
    /\ pending_requests' = w.pending_requests
    /\ next_query_id' = w.next_query_id
    /\ backlog' = w.backlog
    /\ csock' = w.csock
    /\ tsock' = w.tsock
    /\ hist' = w.hist
    /\ dns_wire' = w.dns_wire
    /\ dns_inbox' = w.dns_inbox

\* the socket a registered connection token stands for
SocketOf(token) ==
    LET conn_id == token_map[token][1]
    IN  IF token_map[token][2] = "Client" THEN csock[conn_id] ELSE tsock[conn_id]

\* the events poll can return now: the listener when a client waits, the DNS
\* socket when a datagram is queued, a connection socket for the readiness
\* its registered interest asks for (a socket takes writes whenever asked)
ReadyEvents ==
    {[token |-> SERVER, readable |-> TRUE, writable |-> FALSE] : x \in
        {y \in {SERVER} : backlog # <<>>}}
    \cup {[token |-> DNS, readable |-> TRUE, writable |-> FALSE] : x \in
        {y \in {DNS} : dns_inbox # <<>>}}
    \cup {e \in [token : DOMAIN registry \ {SERVER, DNS},
                 readable : BOOLEAN, writable : BOOLEAN] :
            /\ e.readable \/ e.writable
            /\ e.readable => "R" \in registry[e.token] /\ SocketReadable(SocketOf(e.token))
            /\ e.writable => "W" \in registry[e.token]}

Batches ==
    UNION {{b \in [1..len -> ReadyEvents] :
              \A i, j \in 1..len : i # j => b[i].token # b[j].token} :
           len \in 1..MaxBatch}

\* self.poll.poll(&mut events, None) blocks until an event is ready and
\* returns a batch; between polls the rest of the last batch is dispatched
PolledBatches == IF batch = <<>> THEN Batches ELSE {batch}

\* the step that handles the last event of a batch also runs the sweep
EndEvent(w, b) == IF Tail(b) = <<>> THEN sweep(w, now) ELSE w

\* the choices the environment makes while event e is handled
ReadChoices(e) ==
    IF e.readable /\ e.token \in DOMAIN token_map /\ e.token \in DOMAIN registry
    THEN 1..(IF Len(SocketOf(e.token).tx) > 0 THEN Len(SocketOf(e.token).tx) ELSE 1)
    ELSE {1}

ConnectChoices(e) ==
    IF /\ e.readable
       /\ e.token \in DOMAIN token_map
       /\ token_map[e.token][1] \in DOMAIN connections
       /\ connections[token_map[e.token][1]].state = "Request"
    THEN upstream ELSE {NoOutcome}

SendChoices(e) ==
    IF /\ e.readable
       /\ e.token \in DOMAIN token_map
       /\ token_map[e.token][1] \in DOMAIN connections
       /\ connections[token_map[e.token][1]].state = "Request"
    THEN BOOLEAN ELSE {TRUE}

WriteChoices(e) ==
    IF /\ e.writable
       /\ e.token \in DOMAIN token_map
       /\ token_map[e.token][1] \in DOMAIN connections
    THEN LET conn == connections[token_map[e.token][1]]
         IN  0..(IF token_map[e.token][2] = "Client"
                 THEN IF csock[token_map[e.token][1]].full THEN 0
                      ELSE Len(conn.target_to_client)
                 ELSE Len(conn.client_to_target))
    ELSE {0}

\* one iteration of `for event in events.iter()` with event.token() == SERVER
HandleAccept ==
    /\ \E b \in PolledBatches :
          /\ Head(b).token = SERVER
          /\ Commit(EndEvent(accept_connections(World), b))
          /\ batch' = Tail(b)
    /\ UNCHANGED <<now, future, upstream, resolver>>

\* ... with event.token() == DNS
HandleDnsSocket ==
    /\ \E b \in PolledBatches :
          /\ Head(b).token = DNS
          /\ \E o \in upstream :
                Commit(EndEvent(handle_dns_socket(World, o), b))
          /\ batch' = Tail(b)
    /\ UNCHANGED <<now, future, upstream, resolver>>

\* ... with any other token
HandleConnectionEvent ==
    /\ \E b \in PolledBatches :
          /\ Head(b).token \notin {SERVER, DNS}
          /\ \E k \in ReadChoices(Head(b)), o \in ConnectChoices(Head(b)),
                sent \in SendChoices(Head(b)), n \in WriteChoices(Head(b)) :
                Commit(EndEvent(
                    handle_connection_event(World, now, Head(b), k, o, sent, n), b))
          /\ batch' = Tail(b)
    /\ UNCHANGED <<now, future, upstream, resolver>>

---------------------------------------------------------------------------
(* The environment. *)

\* clients arrive one at a time: the next one connects when those before it
\* are waiting for the proxy
ClientConnect ==
    /\ future # <<>>
    /\ backlog = <<>>
    /\ \A id \in DOMAIN connections :
          csock[id].later # <<>> => Len(csock[id].rx) < Head(csock[id].later).wait
    /\ backlog' = Append(backlog, Head(future))
    /\ future' = Tail(future)
    /\ UNCHANGED <<connections, token_map, next_connection_id, next_token,
                   registry, pending_requests, next_query_id, batch, now,
                   csock, tsock, hist, dns_wire, dns_inbox, upstream, resolver>>

\* the client takes its next step: it sends a segment, or stalls
ClientSend ==
    /\ \E id \in DOMAIN connections :
          LET s == csock[id]
          IN  /\ s.later # <<>>
              /\ Head(s.later).kind \in {"send", "fin", "stall"}
              /\ Len(s.rx) >= Head(s.later).wait
              /\ csock' = [csock EXCEPT ![id].tx = @ \o Head(s.later).data,
                                        ![id].fin = (Head(s.later).kind = "fin"),
                                        ![id].full = (@ \/ Head(s.later).kind = "stall"),
                                        ![id].later = Tail(@)]
    /\ UNCHANGED <<connections, token_map, next_connection_id, next_token,
                   registry, pending_requests, next_query_id, batch, now,
                   future, backlog, tsock, hist, dns_wire, dns_inbox, upstream,
                   resolver>>

\* the client resets its connection: what it sent and the proxy has not read
\* is discarded, reads and writes on the socket fail from now on
ClientReset ==
    /\ \E id \in DOMAIN connections :
          LET s == csock[id]
          IN  /\ s.later # <<>>
              /\ Head(s.later).kind = "reset"
              /\ Len(s.rx) >= Head(s.later).wait
              /\ csock' = [csock EXCEPT ![id].err = TRUE, ![id].tx = <<>>,
                                        ![id].later = Tail(@)]
    /\ UNCHANGED <<connections, token_map, next_connection_id, next_token,
                   registry, pending_requests, next_query_id, batch, now,
                   future, backlog, tsock, hist, dns_wire, dns_inbox, upstream,
                   resolver>>

\* the resolver answers a query it was sent
ResolverReply ==
    /\ Len(dns_inbox) < MaxInbox
    /\ \E q \in dns_wire, shape \in resolver :
          /\ dns_inbox' = Append(dns_inbox, Datagram("resolver", q.id, q.qname, shape))
          /\ dns_wire' = dns_wire \ {q}
    /\ UNCHANGED <<connections, token_map, next_connection_id, next_token,
                   registry, pending_requests, next_query_id, batch, now,
                   future, backlog, csock, tsock, hist, upstream, resolver>>

\* a host other than the resolver sends a datagram to the DNS socket
ForeignDatagram ==
    /\ Len(dns_inbox) < MaxInbox
    /\ DOMAIN pending_requests # {}
    /\ \E id \in 0..(QueryIdModulus - 1) :
          dns_inbox' = Append(dns_inbox,
                              Datagram("other", id, <<>>,
                                       [wellformed |-> TRUE, rcode |-> 0, answer |-> "A"]))
    /\ UNCHANGED <<connections, token_map, next_connection_id, next_token,
                   registry, pending_requests, next_query_id, batch, now,
                   future, backlog, csock, tsock, hist, dns_wire, upstream,
                   resolver>>

\* time passes; only the age of a pending request is ever read
Tick ==
    /\ now < MaxTime
    /\ DOMAIN pending_requests # {}
    /\ now' = now + 1
    /\ UNCHANGED <<connections, token_map, next_connection_id, next_token,
                   registry, pending_requests, next_query_id, batch, future,
                   backlog, csock, tsock, hist, dns_wire, dns_inbox, upstream, resolver>>

---------------------------------------------------------------------------
(* Specifications. *)

AuthReplyLen == Len(create_auth_response)

TunnelReplyLen == Len(create_auth_response) + Len(create_success_response)

\* a client that follows the protocol: greeting, request once the method
\* selection has arrived, payload once the reply has arrived
Session(greeting, request) ==
    <<Send(greeting, 0), Send(request, AuthReplyLen)>>

ClientBehaviours ==
    {Session(GreetNoAuth, ReqIPv4) \o <<last>> :
        last \in {Send(Payload, TunnelReplyLen), SendFin(Payload, TunnelReplyLen)}}
    \cup {Session(GreetNoMatch, ReqDomain) \o <<last>> :
        last \in {SendFin(Payload, TunnelReplyLen), Reset(AuthReplyLen)}}
    \cup {Session(GreetNoAuth, ReqIPv4)
              \o <<Send(Payload, TunnelReplyLen), SendFin(MorePayload, TunnelReplyLen)>>,
          <<Send(GreetBadVersion, 0)>>,
          <<Send(GreetNoAuth, 0), SendFin(<<>>, AuthReplyLen)>>,
          <<SendFin(<<SOCKS_VERSION>>, 0)>>,
          Session(GreetNoAuth, ReqBadCmd),
          Session(GreetNoAuth, ReqBadVersion),
          Session(GreetNoAuth, ReqBadAtyp)}

\* Server::new and DnsResolver::new
InitServer ==
    /\ connections = EmptyMap
    /\ token_map = EmptyMap
    /\ next_connection_id = FirstConnectionId
    /\ next_token = FirstToken
    /\ registry = [t \in {SERVER, DNS} |-> READABLE]
    /\ pending_requests = EmptyMap
    /\ next_query_id = FirstQueryId
    /\ batch = <<>>
    /\ backlog = <<>>
    /\ csock = EmptyMap
    /\ tsock = EmptyMap
    /\ hist = EmptyMap
    /\ dns_wire = {}
    /\ dns_inbox = <<>>

\* one client, any behaviour, any outcome of the outbound connect
Init ==
    /\ InitServer
    /\ now = 0
    /\ future \in {<<c>> : c \in ClientBehaviours}
    /\ upstream = TargetOutcomes
    /\ resolver = ReplyShapes

\* what the clients of a crowd do: ask for a domain, and perhaps give up
CrowdBehaviours ==
    {Session(GreetNoAuth, ReqDomain),
     Session(GreetNoAuth, ReqDomain) \o <<Reset(AuthReplyLen)>>}

\* CrowdSize clients that ask for a domain, the last of which may give up;
\* every outbound connect fails at once, the resolver answers with an A
\* record, and the clock is one tick before its last value
InitCrowd ==
    /\ InitServer
    /\ now = MaxTime - 1
    /\ future \in {[i \in 1..CrowdSize |->
                      IF i = CrowdSize THEN last ELSE Session(GreetNoAuth, ReqDomain)] :
                   last \in CrowdBehaviours}
    /\ upstream = {[kind |-> "sync_fail", tx |-> <<>>, fin |-> FALSE]}
    /\ resolver = {[wellformed |-> TRUE, rcode |-> 0, answer |-> "A"]}

\* two clients, one after the other: the first asks for an address, sends
\* its payload and half-closes, the second asks for a domain and gives up
\* once the tunnel is up; every outbound connect succeeds and the target
\* closes without sending anything
InitPair ==
    /\ InitServer
    /\ now = MaxTime - 1
    /\ future = <<Session(GreetNoAuth, ReqIPv4) \o <<SendFin(Payload, TunnelReplyLen)>>,
                  Session(GreetNoAuth, ReqDomain) \o <<Reset(TunnelReplyLen)>>>>
    /\ upstream = {[kind |-> "up", tx |-> <<>>, fin |-> TRUE]}
    /\ resolver = {[wellformed |-> TRUE, rcode |-> 0, answer |-> "A"]}

\* what clients with a full send buffer do: stall before the greeting, stall
\* before the request, stall or give up once the tunnel is up
StallBehaviours ==
    {<<Stall(0), Send(GreetNoAuth, 0)>>}
    \cup {<<Send(GreetNoAuth, 0), Stall(AuthReplyLen), Send(request, AuthReplyLen)>> :
            request \in {ReqIPv4, ReqDomain, ReqBadCmd}}
    \cup {Session(GreetNoAuth, ReqIPv4) \o <<last>> :
            last \in {Stall(TunnelReplyLen), Reset(TunnelReplyLen)}}

\* one client towards whom the send buffer may fill; an outbound connect is
\* refused or completes, and the target does not close
InitStall ==
    /\ InitServer
    /\ now = 0
    /\ future \in {<<c>> : c \in StallBehaviours}
    /\ upstream = {o \in TargetOutcomes : o.kind # "sync_fail" /\ ~o.fin}
    /\ resolver = {shape \in ReplyShapes : shape.wellformed /\ shape.rcode = 0}

\* what clients that do not wait for the proxy do: send the request with the
\* greeting, in one segment or in two, or send the first payload with the
\* request; the one that asks for a domain gives up once the tunnel is up
PipelineBehaviours ==
    {<<Send(GreetNoAuth \o ReqIPv4, 0), Send(Payload, TunnelReplyLen)>>,
     <<Send(GreetNoAuth, 0), Send(ReqIPv4, 0), Send(Payload, TunnelReplyLen)>>,
     <<Send(GreetNoAuth, 0), Send(ReqIPv4 \o Payload, AuthReplyLen)>>,
     <<Send(GreetNoAuth, 0), Send(ReqDomain \o Payload, AuthReplyLen),
       Reset(TunnelReplyLen)>>}

\* one client that does not wait; every outbound connect completes and the
\* target sends nothing, the resolver answers with an A record
InitPipeline ==
    /\ InitServer
    /\ now = 0
    /\ future \in {<<c>> : c \in PipelineBehaviours}
    /\ upstream = {o \in TargetOutcomes : o.kind = "up" /\ o.tx = <<>> /\ ~o.fin}
    /\ resolver = {[wellformed |-> TRUE, rcode |-> 0, answer |-> "A"]}

Next ==
    \/ HandleAccept
    \/ HandleDnsSocket
    \/ HandleConnectionEvent
    \/ ClientConnect
    \/ ClientSend
    \/ ClientReset
    \/ ResolverReply
    \/ ForeignDatagram
    \/ Tick

Spec == Init /\ [][Next]_vars

CrowdSpec == InitCrowd /\ [][Next]_vars

StallSpec == InitStall /\ [][Next]_vars

PairSpec == InitPair /\ [][Next]_vars

PipelineSpec == InitPipeline /\ [][Next]_vars

---------------------------------------------------------------------------
(* Properties.  hist[i] is what the proxy has read from connection i's     *)
(* peers and the control frames it has written; csock[i].rx and            *)
(* tsock[i].rx are what the peers have received.                           *)

IsPrefix(a, b) == Len(a) <= Len(b) /\ SubSeq(b, 1, Len(a)) = a

RECURSIVE Flatten(_)
Flatten(frames) ==
    IF frames = <<>> THEN <<>> ELSE Head(frames) \o Flatten(Tail(frames))

\* what the client has received after the control frames
RelayedToClient(i) == Drain(csock[i].rx, Len(Flatten(hist[i].frames)))

CompleteGreeting(hs) == Len(hs) >= 2 /\ Len(hs) >= 2 + hs[2]

FrameCount(i, frame) ==
    Cardinality({j \in 1..Len(hist[i].frames) : hist[i].frames[j] = frame})

\* C1: when the outbound connect of a connection fails asynchronously, the
\* proxy never writes the success reply to its client, and once the
\* connection has left Connecting it is torn down with the refused reply as
\* the last frame written.
C1_AsyncConnectFailureRefused ==
    \A i \in DOMAIN tsock :
        tsock[i].connect_failed =>
            /\ FrameCount(i, create_success_response) = 0
            /\ (i \in DOMAIN connections => connections[i].state = "Connecting")
            /\ (i \notin DOMAIN connections =>
                    hist[i].frames = <<create_auth_response, create_refused_response>>)

\* C2: when the proxy has shut down the target's write half (the client
\* half-closed), the target has received every byte the proxy read from the
\* client in the relay phase.
C2_ClientHalfCloseFlushes ==
    \A i \in DOMAIN tsock :
        tsock[i].rx_fin => tsock[i].rx = hist[i].tun

\* C3: when the proxy has shut down the client socket's write half (the
\* target half-closed), the client has received every byte the proxy read
\* from the target.
C3_TargetHalfCloseFlushes ==
    \A i \in DOMAIN hist :
        csock[i].rx_fin => RelayedToClient(i) = hist[i].t_read

\* C4: once the bytes read in state Request form a request that is a
\* protocol error (bad version, command or address type), the proxy has
\* written the refused reply after the method selection and has torn the
\* connection down.
C4_ProtocolErrorRefused ==
    \A i \in DOMAIN hist :
        parse_request(hist[i].req).kind = "error" =>
            /\ i \notin DOMAIN connections
            /\ hist[i].frames = <<create_auth_response, create_refused_response>>

\* C5: a connection that has been torn down is absent from the connection
\* table, no token-index entry references a connection that is not in the
\* table, only the listener, the DNS socket and the sockets of live
\* connections are registered, both sockets of a torn-down connection are
\* closed, and with an empty connection table the token index is empty.
C5_NoLeakAfterTeardown ==
    /\ \A t \in DOMAIN token_map : token_map[t][1] \in DOMAIN connections
    /\ DOMAIN registry =
           {SERVER, DNS}
           \cup {connections[i].client_token : i \in DOMAIN connections}
           \cup {connections[i].target_token :
                    i \in {j \in DOMAIN connections : connections[j].target}}
    /\ \A i \in DOMAIN hist \ DOMAIN connections :
           /\ ~csock[i].open
           /\ i \in DOMAIN tsock => ~tsock[i].open
    /\ (DOMAIN connections = {} =>
           DOMAIN token_map = {} /\ DOMAIN registry = {SERVER, DNS})

\* a session that had a target socket has been torn down, and no session is
\* left
C5_Witness ==
    /\ future = <<>>
    /\ backlog = <<>>
    /\ DOMAIN connections = {}
    /\ \E i \in DOMAIN tsock : ~tsock[i].open /\ ~csock[i].open

\* C6: a pending DNS request never stays in the map past its deadline: no
\* state has a request older than DNS_TIMEOUT while the loop is blocked in
\* poll with no event ready.
C6_TimeoutBySweepAlone ==
    \A q \in DOMAIN pending_requests :
        (batch = <<>> /\ ReadyEvents = {}) =>
            now - pending_requests[q].timestamp <= DNS_TIMEOUT

\* C7: each connection in state Resolving is referenced by exactly one entry
\* of the pending-request map.
C7_ResolvingHasOnePending ==
    \A i \in DOMAIN connections :
        connections[i].state = "Resolving" =>
            Cardinality({q \in DOMAIN pending_requests :
                            pending_requests[q].conn_id = i}) = 1

\* C8: in each direction of the relay, what the destination has received is
\* a prefix of what the proxy has read from the source, and while the
\* connection is live the bytes received followed by the bytes buffered are
\* exactly the bytes read.
C8_RelayOrderAndIntegrity ==
    \A i \in DOMAIN hist :
        /\ IsPrefix(Flatten(hist[i].frames), csock[i].rx)
        /\ IsPrefix(RelayedToClient(i), hist[i].t_read)
        /\ i \in DOMAIN tsock => IsPrefix(tsock[i].rx, hist[i].tun)
        /\ i \in DOMAIN connections =>
               /\ RelayedToClient(i) \o connections[i].target_to_client = hist[i].t_read
               /\ i \in DOMAIN tsock =>
                      tsock[i].rx \o connections[i].client_to_target = hist[i].tun
               /\ i \notin DOMAIN tsock => hist[i].tun = <<>>

\* a partial write has left part of the client's bytes in the buffer while
\* the target's bytes have been relayed to the client
C8_Witness ==
    \E i \in DOMAIN connections \cap DOMAIN tsock :
        /\ tsock[i].rx # <<>>
        /\ connections[i].client_to_target # <<>>
        /\ RelayedToClient(i) = TargetPayload

\* C9: once the bytes read in state Handshake form a complete greeting of
\* version 5, whatever its method bytes, the proxy has written the method
\* selection 05 00 as its first frame and exactly once, and the connection
\* has left Handshake (to Request, with an empty request buffer, when no
\* request byte has been read yet); before that it has written nothing.
C9_HandshakeAcceptance ==
    \A i \in DOMAIN hist :
        IF CompleteGreeting(hist[i].hs) /\ hist[i].hs[1] = SOCKS_VERSION
        THEN /\ hist[i].frames # <<>>
             /\ hist[i].frames[1] = <<SOCKS_VERSION, NO_AUTH>>
             /\ FrameCount(i, <<SOCKS_VERSION, NO_AUTH>>) = 1
             /\ IsPrefix(<<SOCKS_VERSION, NO_AUTH>>, csock[i].rx)
             /\ i \in DOMAIN connections =>
                    /\ connections[i].state # "Handshake"
                    /\ hist[i].req = <<>> =>
                           /\ connections[i].state = "Request"
                           /\ connections[i].client_buf = <<>>
        ELSE hist[i].frames = <<>>

\* a greeting that does not offer no-auth has been accepted
C9_Witness ==
    \E i \in DOMAIN connections :
        /\ hist[i].hs = GreetNoMatch
        /\ connections[i].state = "Request"
        /\ csock[i].rx = <<SOCKS_VERSION, NO_AUTH>>

\* C10: once the bytes read in state Handshake form a complete greeting whose
\* first byte is not 5, the connection is torn down and the client has been
\* sent nothing.
C10_VersionEnforcement ==
    \A i \in DOMAIN hist :
        (CompleteGreeting(hist[i].hs) /\ hist[i].hs[1] # SOCKS_VERSION) =>
            /\ i \notin DOMAIN connections
            /\ ~csock[i].open
            /\ csock[i].rx = <<>>
            /\ hist[i].frames = <<>>

\* a greeting of version 4 has been read in full
C10_Witness ==
    \E i \in DOMAIN hist :
        /\ hist[i].hs = GreetBadVersion
        /\ i \notin DOMAIN connections

NeedsResolution(req) == parse_request(req).kind = "needs_resolution"

\* the queries pending for connection i
PendingOf(i) ==
    {q \in DOMAIN pending_requests : pending_requests[q].conn_id = i}

FirstAnswer(q) ==
    LET js == {j \in 1..Len(dns_inbox) :
                  /\ dns_inbox[j].src = "resolver"
                  /\ dns_inbox[j].wellformed
                  /\ dns_inbox[j].id = q}
    IN  IF js = {} THEN 0 ELSE CHOOSE j \in js : \A l \in js : j <= l

\* C12: the step that takes from the DNS socket a resolver response without
\* an A record (no answer, or CNAMEs only) for a pending query tears the
\* connection that issued the query down, opens no target socket for it, and
\* writes it the refused reply, the only one it gets, unless its client
\* socket has failed.
C12_NoARecordRefused ==
    [][(dns_inbox # <<>> /\ dns_inbox' = <<>>) =>
          \A q \in DOMAIN pending_requests :
              LET i == pending_requests[q].conn_id
              IN  (/\ FirstAnswer(q) # 0
                   /\ dns_inbox[FirstAnswer(q)].answer # "A"
                   /\ i \in DOMAIN connections) =>
                      /\ i \notin DOMAIN connections'
                      /\ i \notin DOMAIN tsock'
                      /\ q \notin DOMAIN pending_requests'
                      /\ hist[i].frames = <<create_auth_response>>
                      /\ IF csock[i].err
                         THEN hist'[i].frames = hist[i].frames /\ csock'[i].rx = csock[i].rx
                         ELSE /\ hist'[i].frames =
                                     <<create_auth_response, create_refused_response>>
                              /\ csock'[i].rx =
                                     create_auth_response \o create_refused_response]_vars

\* a response without an A record has been handled for a connection whose
\* client was there to get the refused reply
C12_Witness ==
    \E i \in DOMAIN hist :
        /\ hist[i].dns = <<"No A record in response">>
        /\ i \notin DOMAIN connections
        /\ csock[i].rx = create_auth_response \o create_refused_response

\* C13: neither relay buffer of a connection ever holds more bytes than one
\* relay read takes (BUFFER_SIZE).
C13_RelayBufferCap ==
    \A i \in DOMAIN connections :
        /\ Len(connections[i].client_to_target) <= BUFFER_SIZE
        /\ Len(connections[i].target_to_client) <= BUFFER_SIZE

\* C14: a connection in state Tunneling holds an open client socket and an
\* open target socket with a target token, and the token index maps its
\* client token and its target token to it, both registered with the poll.
C14_TunnelingHasBothSockets ==
    \A i \in DOMAIN connections :
        connections[i].state = "Tunneling" =>
            LET conn == connections[i]
            IN  /\ csock[i].open
                /\ conn.target
                /\ conn.target_token # NoToken
                /\ i \in DOMAIN tsock
                /\ tsock[i].open
                /\ conn.client_token \in DOMAIN token_map
                /\ token_map[conn.client_token] = <<i, "Client">>
                /\ conn.target_token \in DOMAIN token_map
                /\ token_map[conn.target_token] = <<i, "Target">>
                /\ {conn.client_token, conn.target_token} \subseteq DOMAIN registry
                /\ conn.client_token # conn.target_token

\* a tunnel is up, reached through a resolved name
C14_Witness ==
    \E i \in DOMAIN connections :
        /\ connections[i].state = "Tunneling"
        /\ hist[i].dns = <<"Resolved">>
        /\ connections[i].target_token \in DOMAIN token_map

\* C15: a connection in state Handshake or Request has no target socket and
\* no target token, and both of its relay buffers are empty.
C15_NoTargetBeforeConnect ==
    \A i \in DOMAIN connections :
        connections[i].state \in {"Handshake", "Request"} =>
            /\ ~connections[i].target
            /\ connections[i].target_token = NoToken
            /\ i \notin DOMAIN tsock
            /\ connections[i].client_to_target = <<>>
            /\ connections[i].target_to_client = <<>>
            /\ hist[i].tun = <<>>
            /\ hist[i].t_read = <<>>

\* part of a request has been read
C15_Witness ==
    \E i \in DOMAIN connections :
        /\ connections[i].state = "Request"
        /\ connections[i].client_buf # <<>>
        /\ ~connections[i].target

\* C16: the tokens a step assigns are exactly the values from next_token up
\* to the new next_token, so each is at least 2, above every token assigned
\* before and assigned once, whether or not earlier tokens have been freed;
\* next_token never decreases, and no endpoint holds token 0 or 1.
C16_TokenAllocation ==
    [][/\ next_token >= FirstToken
       /\ next_token' >= next_token
       /\ DOMAIN token_map' \ DOMAIN token_map = next_token..(next_token' - 1)
       /\ \A t \in DOMAIN token_map' : t >= FirstToken /\ t \notin {SERVER, DNS}
       /\ \A i \in DOMAIN connections' :
              /\ connections'[i].client_token \in FirstToken..(next_token' - 1)
              /\ connections'[i].target =>
                     /\ connections'[i].target_token \in FirstToken..(next_token' - 1)
                     /\ connections'[i].target_token # connections'[i].client_token
       /\ \A i, j \in DOMAIN connections' :
              i # j => connections'[i].client_token # connections'[j].client_token]_vars

\* a token has been freed by a teardown and a connection accepted later,
\* with a token above it, has its target
C16_Witness ==
    \E i \in DOMAIN connections :
        /\ connections[i].target
        /\ \E t \in FirstToken..(next_token - 1) :
              t \notin DOMAIN token_map /\ t < connections[i].client_token

\* the client of connection i has closed and the proxy has read all it sent
ClientAtEof(i) == csock[i].fin /\ csock[i].tx = <<>> /\ ~csock[i].err

\* C17: while a connection is in Handshake or Request and its client has
\* closed with nothing left to read, the client socket is ready to be read,
\* the connection is not marked client_closed (reading the end of stream and
\* tearing down are one step), and the only step that changes the connection
\* tears it down, closing the client socket without writing to it.
C17_CloseBeforeRequest ==
    [][\A i \in DOMAIN connections :
          (connections[i].state \in {"Handshake", "Request"} /\ ClientAtEof(i)) =>
              /\ ~connections[i].client_closed
              /\ \E e \in ReadyEvents :
                    e.token = connections[i].client_token /\ e.readable
              /\ i \in DOMAIN connections' =>
                     connections'[i] = connections[i] /\ csock'[i] = csock[i]
              /\ i \notin DOMAIN connections' =>
                     /\ csock'[i].rx = csock[i].rx
                     /\ ~csock'[i].open
                     /\ hist'[i] = hist[i]
                     /\ i \notin DOMAIN tsock'
                     /\ connections[i].client_token \notin DOMAIN registry'
                     /\ \A t \in DOMAIN token_map' : token_map'[t][1] # i]_vars

\* a client that closed after the method selection has been torn down
C17_Witness ==
    \E i \in DOMAIN hist \ DOMAIN connections :
        /\ ClientAtEof(i)
        /\ hist[i].hs = GreetNoAuth
        /\ hist[i].req = <<>>
        /\ csock[i].rx = create_auth_response
        /\ ~csock[i].open

\* C18: a connection that was tunneling and has been torn down with no error
\* on either socket had both relay buffers empty: each peer has received
\* every byte the proxy read from the other.
C18_TeardownOnlyWhenDrained ==
    \A i \in DOMAIN tsock \ DOMAIN connections :
        (/\ hist[i].frames = <<create_auth_response, create_success_response>>
         /\ ~csock[i].err
         /\ ~tsock[i].err) =>
            /\ tsock[i].rx = hist[i].tun
            /\ RelayedToClient(i) = hist[i].t_read

\* the client of connection i has sent, in all, a greeting that offers no
\* authentication, and nothing else is on its way
GreetingArrived(i) == hist[i].hs \o csock[i].tx = GreetNoAuth

\* neither socket of connection i has an error, an end of stream or a shut
\* write half
SocketsClean(i) ==
    /\ ~csock[i].err /\ ~csock[i].fin /\ ~csock[i].rx_fin
    /\ i \in DOMAIN tsock =>
          ~tsock[i].err /\ ~tsock[i].fin /\ ~tsock[i].rx_fin /\ ~tsock[i].connect_failed

\* C19: no step removes a connection whose client has a full send buffer
\* (every write towards it would block) while the connection waits for a
\* valid greeting, for the outbound connect to complete, or relays, and
\* neither socket has an error or an end of stream.
C19_WouldBlockKeepsConnection ==
    [][\A i \in DOMAIN connections :
          (/\ csock[i].full
           /\ SocketsClean(i)
           /\ \/ connections[i].state = "Handshake" /\ GreetingArrived(i)
              \/ connections[i].state \in {"Connecting", "Tunneling"}) =>
              i \in DOMAIN connections']_vars

\* C20: a connection that got its target socket while its request was
\* handled (no DNS event was handled for it) changes, and has its sockets
\* registered, only in its own readable and writable handling steps; for
\* such a connection the target is registered for Readable, and for Writable
\* exactly when the state is Connecting or client_to_target is non-empty.
C20_TargetInterestPolicy ==
    \A i \in DOMAIN connections :
        (connections[i].target /\ hist[i].dns = <<>>) =>
            /\ "R" \in registry[connections[i].target_token]
            /\ "W" \in registry[connections[i].target_token] <=>
                  (connections[i].state = "Connecting"
                      \/ connections[i].client_to_target # <<>>)

\* C21: the client socket of every live connection is registered for
\* Readable, and for Writable exactly when target_to_client is non-empty.
C21_ClientInterestPolicy ==
    \A i \in DOMAIN connections :
        /\ "R" \in registry[connections[i].client_token]
        /\ "W" \in registry[connections[i].client_token] <=>
              connections[i].target_to_client # <<>>

\* a client-writable step has delivered part of what the target sent and the
\* rest is still buffered
C21_Witness ==
    \E i \in DOMAIN connections :
        /\ connections[i].target_to_client # <<>>
        /\ RelayedToClient(i) # <<>>
        /\ RelayedToClient(i) \o connections[i].target_to_client = hist[i].t_read
        /\ registry[connections[i].client_token] = READABLE \cup WRITABLE

\* C22: no step replaces the pending request recorded under a query id by
\* the request of another connection: while an id stays a key of the
\* pending map, the connection it is recorded for stays the same.
C22_QueryIdNotReused ==
    [][\A q \in DOMAIN pending_requests \cap DOMAIN pending_requests' :
          pending_requests'[q].conn_id = pending_requests[q].conn_id]_vars

\* the connection events poll can return now
ConnectionEvents == {e \in ReadyEvents : e.token \notin {SERVER, DNS}}

\* what the handlers of event e leave behind: whether one of them returned
\* Err, and the connection as they left it
AfterHandlers(e, k, o, sent, n) ==
    LET conn_id == token_map[e.token][1]
        endpoint == token_map[e.token][2]
        r1 == IF e.readable
              THEN handle_readable(World, now, conn_id, endpoint, k, o, sent)
              ELSE Ok(World)
        r2 == IF e.writable THEN handle_writable(r1.w, conn_id, endpoint, n)
              ELSE Ok(r1.w)
    IN  [err |-> r1.err \/ r2.err, conn |-> r2.w.connections[conn_id]]

TeardownPredicate(conn) ==
    \/ conn.client_closed /\ conn.target_to_client = <<>>
    \/ conn.target_closed /\ conn.client_to_target = <<>>

\* C23: for every connection event and every outcome of the reads, writes,
\* connect and send its handlers make, handle_connection_event removes the
\* connection exactly when a handler returned Err or the connection as the
\* handlers left it has (client_closed and target_to_client empty) or
\* (target_closed and client_to_target empty); so no connection in the
\* table satisfies that predicate.
C23_TeardownPredicate ==
    /\ \A i \in DOMAIN connections : ~TeardownPredicate(connections[i])
    /\ \A e \in ConnectionEvents :
          \A k \in ReadChoices(e), o \in ConnectChoices(e),
             sent \in SendChoices(e), n \in WriteChoices(e) :
              LET after == AfterHandlers(e, k, o, sent, n)
                  w == handle_connection_event(World, now, e, k, o, sent, n)
              IN  token_map[e.token][1] \notin DOMAIN w.connections <=>
                      (after.err \/ TeardownPredicate(after.conn))

\* both cases are about to happen: a handler of a tunneling connection
\* returns Err, and the handlers of a tunneling connection return Ok and
\* leave it closed on one side with the opposite buffer empty
C23_Witness ==
    /\ \E e \in ConnectionEvents :
          \E k \in ReadChoices(e), n \in WriteChoices(e) :
              LET after == AfterHandlers(e, k, NoOutcome, TRUE, n)
              IN  /\ connections[token_map[e.token][1]].state = "Tunneling"
                  /\ ~after.err
                  /\ TeardownPredicate(after.conn)
    /\ \E e \in ConnectionEvents :
          \E k \in ReadChoices(e), n \in WriteChoices(e) :
              LET after == AfterHandlers(e, k, NoOutcome, TRUE, n)
              IN  /\ connections[token_map[e.token][1]].state = "Tunneling"
                  /\ after.err
                  /\ ~TeardownPredicate(after.conn)

\* C24: the step that takes from the DNS socket a resolver response with a
\* non-zero RCODE for a pending query tears the connection that issued the
\* query down, opens no target socket for it, and writes it the refused
\* reply unless its client socket has failed, whatever the answer section
\* of the response holds.
C24_NonZeroRcodeFails ==
    [][(dns_inbox # <<>> /\ dns_inbox' = <<>>) =>
          \A q \in DOMAIN pending_requests :
              LET i == pending_requests[q].conn_id
              IN  (/\ FirstAnswer(q) # 0
                   /\ dns_inbox[FirstAnswer(q)].rcode # 0
                   /\ i \in DOMAIN connections) =>
                      /\ i \notin DOMAIN connections'
                      /\ i \notin DOMAIN tsock'
                      /\ ~csock[i].err =>
                             csock'[i].rx =
                                 create_auth_response \o create_refused_response]_vars

FromResolver(d) == d.src = "resolver"

\* the connections that have a pending request the sweep at time t expires
Expiring(t) ==
    {pending_requests[q].conn_id : q \in Expired(pending_requests, t)}

\* C25: what the receive loop returns does not depend on the datagrams that
\* come from another address than the resolver's; and the step that takes
\* from the DNS socket nothing but such datagrams leaves every pending
\* request and every connection as they were (but for the requests that
\* time out in that step), even when a datagram carries the id of a pending
\* request.
C25_ForeignDatagramDropped ==
    [][/\ handle_responses(pending_requests, dns_inbox, <<>>) =
              handle_responses(pending_requests, SelectSeq(dns_inbox, FromResolver), <<>>)
       /\ (/\ dns_inbox # <<>>
           /\ dns_inbox' = <<>>
           /\ SelectSeq(dns_inbox, FromResolver) = <<>>) =>
              /\ \A q \in DOMAIN pending_requests \ Expired(pending_requests, now) :
                    /\ q \in DOMAIN pending_requests'
                    /\ pending_requests'[q] = pending_requests[q]
              /\ \A i \in DOMAIN connections \ Expiring(now) :
                    /\ i \in DOMAIN connections'
                    /\ connections'[i] = connections[i]
                    /\ csock'[i] = csock[i]
                    /\ hist'[i] = hist[i]
              /\ tsock' = tsock
              /\ \A t \in DOMAIN registry :
                    (\A i \in DOMAIN connections \cap Expiring(now) :
                        t # connections[i].client_token) =>
                        t \in DOMAIN registry' /\ registry'[t] = registry[t]
              /\ DOMAIN registry' \subseteq DOMAIN registry
              /\ dns_wire' = dns_wire]_vars

\* the DNS socket holds a datagram from another address with the id of a
\* request pending for a connection in Resolving, and the receive loop
\* returns no event and the pending map as it is
C25_Witness ==
    /\ \E j \in 1..Len(dns_inbox) :
          /\ ~FromResolver(dns_inbox[j])
          /\ dns_inbox[j].id \in DOMAIN pending_requests
          /\ pending_requests[dns_inbox[j].id].conn_id \in DOMAIN connections
          /\ connections[pending_requests[dns_inbox[j].id].conn_id].state = "Resolving"
    /\ handle_responses(pending_requests, dns_inbox, <<>>) =
           [pending |-> pending_requests, events |-> <<>>]
    /\ [token |-> DNS, readable |-> TRUE, writable |-> FALSE] \in ReadyEvents

\* inbox with datagram d put in after its first pos datagrams
InsertAt(inbox, pos, d) ==
    SubSeq(inbox, 1, pos) \o <<d>> \o SubSeq(inbox, pos + 1, Len(inbox))

\* the resolver responses, of any shape, whose id is not pending
UnknownResponses ==
    {Datagram("resolver", id, <<>>, shape) :
        id \in (0..(QueryIdModulus - 1)) \ DOMAIN pending_requests,
        shape \in ReplyShapes}

\* C26: a resolver response whose id is not a key of the pending map, put
\* anywhere among the queued datagrams, changes neither the events nor the
\* pending map the receive loop returns; the step that takes from the DNS
\* socket nothing but such responses leaves every pending request and every
\* connection as they were (but for the requests that time out in that
\* step); and no connection ever has a second DNS event handled for it.
C26_UnknownResponseDiscarded ==
    [][/\ \A d \in UnknownResponses, pos \in 0..Len(dns_inbox) :
              handle_responses(pending_requests, InsertAt(dns_inbox, pos, d), <<>>) =
                  handle_responses(pending_requests, dns_inbox, <<>>)
       /\ \A i \in DOMAIN hist' : Len(hist'[i].dns) <= 1
       /\ (/\ dns_inbox # <<>>
           /\ dns_inbox' = <<>>
           /\ \A j \in 1..Len(dns_inbox) :
                 /\ FromResolver(dns_inbox[j])
                 /\ dns_inbox[j].id \notin DOMAIN pending_requests) =>
              /\ \A q \in DOMAIN pending_requests \ Expired(pending_requests, now) :
                    /\ q \in DOMAIN pending_requests'
                    /\ pending_requests'[q] = pending_requests[q]
              /\ \A i \in DOMAIN connections \ Expiring(now) :
                    /\ i \in DOMAIN connections'
                    /\ connections'[i] = connections[i]
                    /\ csock'[i] = csock[i]
                    /\ hist'[i] = hist[i]
              /\ tsock' = tsock
              /\ next_token' = next_token]_vars

\* the response to a query that has timed out is on the DNS socket after its
\* connection got the timeout event and was torn down
C26_Witness ==
    \E j \in 1..Len(dns_inbox) :
        /\ FromResolver(dns_inbox[j])
        /\ dns_inbox[j].wellformed
        /\ dns_inbox[j].id \notin DOMAIN pending_requests
        /\ \E i \in DOMAIN hist \ DOMAIN connections :
              /\ hist[i].dns = <<"DNS query timed out">>
              /\ parse_request(hist[i].req).domain = dns_inbox[j].qname

\* the target socket of connection i can be handled as writable now
TargetWritableReady(i) ==
    \E e \in ConnectionEvents : e.token = connections[i].target_token /\ e.writable

\* the step has taken connection i from Connecting to Tunneling and written
\* the success reply to its client
TunnelOpened(i) ==
    /\ i \in DOMAIN connections'
    /\ connections'[i] = [connections[i] EXCEPT !.state = "Tunneling"]
    /\ connections'[i].client_to_target = <<>>
    /\ connections'[i].target_to_client = <<>>
    /\ csock'[i].rx = csock[i].rx \o create_success_response
    /\ hist'[i].frames = Append(hist[i].frames, create_success_response)
    /\ registry'[connections[i].client_token] = READABLE
    /\ registry'[connections[i].target_token] = READABLE

\* C27: the success reply is written to a client only by the step that
\* handles a target Writable event of its connection in Connecting, and is
\* written once; that step leaves the connection in Tunneling with both
\* relay buffers empty and both sockets registered for Readable alone; and a
\* connection leaves Connecting only in that way, or is torn down with no
\* success reply when the write to its client fails.
C27_ConnectingToTunneling ==
    [][\A i \in DOMAIN hist :
          /\ FrameCount(i, create_success_response)' <= 1
          /\ hist'[i].frames # hist[i].frames /\
                 hist'[i].frames[Len(hist'[i].frames)] = create_success_response =>
                 /\ i \in DOMAIN connections
                 /\ connections[i].state = "Connecting"
                 /\ TargetWritableReady(i)
                 /\ TunnelOpened(i)
          /\ (/\ i \in DOMAIN connections
              /\ connections[i].state = "Connecting"
              /\ i \in DOMAIN connections' => connections'[i] # connections[i]) =>
                 /\ TargetWritableReady(i)
                 /\ \/ TunnelOpened(i)
                    \/ /\ csock[i].err \/ csock[i].full
                       /\ i \notin DOMAIN connections'
                       /\ hist'[i].frames = hist[i].frames
                       /\ csock'[i].rx = csock[i].rx]_vars

\* a tunnel has just been opened: the client has the success reply, nothing
\* has been relayed yet, and both sockets are registered for Readable alone
C27_Witness ==
    \E i \in DOMAIN connections :
        /\ connections[i].state = "Tunneling"
        /\ csock[i].rx = create_auth_response \o create_success_response
        /\ hist[i].tun = <<>> /\ hist[i].t_read = <<>>
        /\ registry[connections[i].client_token] = READABLE
        /\ registry[connections[i].target_token] = READABLE
        /\ hist[i].dns = <<>>

ValidRequests == {ReqIPv4, ReqDomain}

ProperPrefixOfValid(req) ==
    \E frame \in ValidRequests : IsPrefix(req, frame) /\ req # frame

\* the world in which connection i has read nothing of its request yet: the
\* bytes it has buffered are back on its client socket
Unread(i) ==
    [World EXCEPT !.connections[i].client_buf = <<>>,
                  !.csock[i].tx = connections[i].client_buf \o @,
                  !.hist[i].req = <<>>]

Resolvers(h) == {i \in DOMAIN h : NeedsResolution(h[i].req)}

\* the value of the counter after calls calls of resolve
QueryIdAfter(calls) == (FirstQueryId + calls) % QueryIdModulus

\* C29: the query id counter is 1 plus the number of calls of resolve so
\* far, modulo the id space (the last id is followed by 0), whether the
\* calls recorded a pending request or failed; and a query sent or a pending
\* request recorded by a step carries the value the counter had before it.
C29_QueryIdSequence ==
    [][/\ next_query_id = QueryIdAfter(Cardinality(Resolvers(hist)))
       /\ next_query_id' = QueryIdAfter(Cardinality(Resolvers(hist')))
       /\ \A q \in DOMAIN pending_requests' :
             (q \notin DOMAIN pending_requests \/
                  pending_requests'[q] # pending_requests[q]) =>
                 /\ q = next_query_id
                 /\ next_query_id' = wrapping_add(next_query_id)
       /\ \A query \in dns_wire' \ dns_wire : query.id = next_query_id]_vars

\* the counter has gone round (1, 0, 1, 0), and one of the calls failed
\* before a request was recorded: its connection was refused with no DNS
\* event
C29_Witness ==
    /\ Cardinality(Resolvers(hist)) = CrowdSize
    /\ next_query_id = QueryIdAfter(CrowdSize)
    /\ \E i \in Resolvers(hist) \ DOMAIN connections :
          /\ hist[i].dns = <<>>
          /\ hist[i].frames = <<create_auth_response, create_refused_response>>
    /\ \E i \in Resolvers(hist) : hist[i].dns # <<>>

\* domain names to call resolve with: x, and x..y with its empty label
TestDomains == {<<120>>, <<120, 46, 46, 121>>}

\* the event of reading the client socket of connection i
ClientReadable(i) ==
    [token |-> connections[i].client_token, readable |-> TRUE, writable |-> FALSE]

\* C30: a call of resolve that fails, for an invalid name or a failed send,
\* records no pending request and sends no query; and when the read that
\* completes a request for a domain is handled and the send of the query
\* fails, the connection is removed without having been in Resolving, its
\* client has been written the refused reply and its socket is closed, and
\* the pending map and the queries sent are as before.
C30_ResolveFailureRefused ==
    /\ \A domain \in TestDomains, sent \in BOOLEAN :
          LET r == resolve(World, now, domain, 9, 1, sent)
          IN  /\ r.err <=> (~sent \/ ~NameFromUtf8Ok(domain))
              /\ r.err => /\ r.w.pending_requests = pending_requests
                          /\ r.w.dns_wire = dns_wire
    /\ \A i \in DOMAIN connections :
          connections[i].state = "Request" =>
              \A k \in 1..Len(csock[i].tx) :
                  NeedsResolution(hist[i].req \o SubSeq(csock[i].tx, 1, k)) =>
                      LET w == handle_connection_event(
                                   World, now, ClientReadable(i), k, NoOutcome, FALSE, 0)
                      IN  /\ i \notin DOMAIN w.connections
                          /\ w.pending_requests = pending_requests
                          /\ w.dns_wire = dns_wire
                          /\ w.tsock = tsock
                          /\ w.hist[i].frames =
                                 <<create_auth_response, create_refused_response>>
                          /\ w.csock[i].rx =
                                 create_auth_response \o create_refused_response
                          /\ ~w.csock[i].open
                          /\ connections[i].client_token \notin DOMAIN w.registry
    /\ \A i \in DOMAIN connections :
          connections[i].state = "Resolving" => PendingOf(i) # {}

\* the send of a connection's query has failed: the connection is gone and
\* its client has the refused reply, with no query sent, no request pending
\* and no DNS event
C30_Witness ==
    \E i \in Resolvers(hist) \ DOMAIN connections :
        /\ hist[i].dns = <<>>
        /\ csock[i].rx = create_auth_response \o create_refused_response
        /\ ~csock[i].open
        /\ dns_wire = {}
        /\ pending_requests = EmptyMap
        /\ next_query_id = QueryIdAfter(1)

\* the clients that may be waiting on the listener when it is handled
Arrivals ==
    {<<>>, <<<<Send(GreetNoAuth, 0)>>>>,
     <<<<Send(GreetNoAuth, 0)>>, <<Reset(0)>>>>}

\* C31: handling the listener with any number of clients waiting takes them
\* all: the j-th of them becomes the connection with id next_connection_id +
\* j - 1 and client token next_token + j - 1, in state Handshake with no
\* target and empty buffers, registered for Readable and indexed as
\* (id, Client), and nothing else changes; and the ids a step adds to the
\* table are those from next_connection_id up to its new value, so above
\* every id assigned before.
C31_AcceptDrainsListener ==
    [][/\ \A more \in Arrivals :
             LET waiting == backlog \o more
                 w == accept_connections([World EXCEPT !.backlog = waiting])
                 n == Len(waiting)
             IN  /\ w.backlog = <<>>
                 /\ w.next_connection_id = next_connection_id + n
                 /\ w.next_token = next_token + n
                 /\ DOMAIN w.connections =
                        DOMAIN connections \cup
                            next_connection_id..(next_connection_id + n - 1)
                 /\ DOMAIN w.token_map =
                        DOMAIN token_map \cup next_token..(next_token + n - 1)
                 /\ \A j \in 1..n :
                       LET id == next_connection_id + j - 1
                           token == next_token + j - 1
                       IN  /\ w.connections[id] = NewConnection(token)
                           /\ w.connections[id].state = "Handshake"
                           /\ w.connections[id].client_token = token
                           /\ w.registry[token] = READABLE
                           /\ w.token_map[token] = <<id, "Client">>
                           /\ w.csock[id] = NewClientSocket(waiting[j])
                 /\ \A i \in DOMAIN connections : w.connections[i] = connections[i]
                 /\ \A t \in DOMAIN token_map : w.token_map[t] = token_map[t]
                 /\ \A t \in DOMAIN registry : w.registry[t] = registry[t]
       /\ next_connection_id' >= next_connection_id
       /\ DOMAIN connections' \ DOMAIN connections =
              next_connection_id..(next_connection_id' - 1)
       /\ DOMAIN hist = FirstConnectionId..(next_connection_id - 1)
       /\ (backlog # <<>> /\ backlog' = <<>>) =>
              next_connection_id' = next_connection_id + Len(backlog)]_vars

\* a client accepted after an earlier connection was torn down has the next
\* id, and is in Handshake with nothing read
C31_Witness ==
    \E i \in DOMAIN connections :
        /\ i > FirstConnectionId
        /\ i = next_connection_id - 1
        /\ (i - 1) \notin DOMAIN connections
        /\ connections[i] = NewConnection(connections[i].client_token)
        /\ token_map[connections[i].client_token] = <<i, "Client">>
        /\ registry[connections[i].client_token] = READABLE

\* everything the proxy holds of connection j is in world w as it is now
Untouched(w, j) ==
    /\ j \in DOMAIN w.connections
    /\ w.connections[j] = connections[j]
    /\ w.csock[j] = csock[j]
    /\ j \in DOMAIN tsock => w.tsock[j] = tsock[j]
    /\ \A t \in DOMAIN token_map :
          token_map[t][1] = j =>
              /\ t \in DOMAIN w.token_map /\ w.token_map[t] = token_map[t]
              /\ t \in DOMAIN registry => t \in DOMAIN w.registry /\ w.registry[t] = registry[t]

\* the DNS events the queued datagrams give rise to
QueuedEvents == handle_responses(pending_requests, dns_inbox, <<>>).events

\* conn_id is refused by the DNS events that are handled with connect
\* outcome o
RefusedBy(events, o, conn_id) ==
    \E j \in 1..Len(events) :
        /\ events[j].conn_id = conn_id
        /\ events[j].kind = "Failed" \/ o.kind = "sync_fail"

\* C32: when a handler of a connection event returns Err, for a failed read
\* or write or after a refusal, the connection of the event is removed and
\* every other connection is left as it is, with its sockets registered as
\* before; and when the DNS socket is handled, or the timeout sweep runs,
\* every connection that is refused is removed, also when its client socket
\* has failed and the refused reply cannot be written, and every connection
\* that gets no event is left as it is.
C32_BestEffortReplies ==
    /\ \A e \in ConnectionEvents :
          \A k \in ReadChoices(e), o \in ConnectChoices(e),
             sent \in SendChoices(e), n \in WriteChoices(e) :
              LET i == token_map[e.token][1]
                  w == handle_connection_event(World, now, e, k, o, sent, n)
              IN  AfterHandlers(e, k, o, sent, n).err =>
                      /\ i \notin DOMAIN w.connections
                      /\ ~w.csock[i].open
                      /\ \A j \in DOMAIN connections \ {i} : Untouched(w, j)
    /\ \A o \in upstream :
          LET w == handle_dns_socket(World, o)
          IN  \A i \in DOMAIN connections :
                  /\ RefusedBy(QueuedEvents, o, i) =>
                        /\ i \notin DOMAIN w.connections
                        /\ ~w.csock[i].open
                        /\ csock[i].err => w.csock[i].rx = csock[i].rx
                  /\ (\A j \in 1..Len(QueuedEvents) : QueuedEvents[j].conn_id # i) =>
                        Untouched(w, i)
    /\ LET w == sweep(World, now)
       IN  \A i \in DOMAIN connections :
               IF i \in Expiring(now)
               THEN /\ i \notin DOMAIN w.connections
                    /\ ~w.csock[i].open
                    /\ csock[i].err => w.csock[i].rx = csock[i].rx
               ELSE Untouched(w, i)

\* a connection whose client had reset was refused after its DNS event and
\* is gone, with no refused reply written, while another connection is
\* still served
C32_Witness ==
    \E i \in DOMAIN hist \ DOMAIN connections :
        /\ csock[i].err
        /\ hist[i].dns # <<>>
        /\ hist[i].frames = <<create_auth_response>>
        /\ ~csock[i].open
        /\ DOMAIN connections # {}

\* the tokens that the index of world w maps to connection j
TokensOf(w, j) == {t \in DOMAIN w.token_map : w.token_map[t][1] = j}

\* C33: whatever the handlers of an event for a token of connection A do,
\* the record of every other connection B, the sockets of B, the index
\* entries of B and the registrations of B's tokens are after the event what
\* they were before it, and no index entry of B is added.
C33_OtherConnectionsUntouched ==
    \A e \in ConnectionEvents :
        \A k \in ReadChoices(e), o \in ConnectChoices(e),
           sent \in SendChoices(e), n \in WriteChoices(e) :
            LET a == token_map[e.token][1]
                w == handle_connection_event(World, now, e, k, o, sent, n)
            IN  \A b \in DOMAIN connections \ {a} :
                    /\ Untouched(w, b)
                    /\ TokensOf(w, b) = TokensOf(World, b)
                    /\ (b \in DOMAIN w.tsock) = (b \in DOMAIN tsock)

\* two connections are live with a target socket each, and one of them has
\* read tunnel bytes of its client while the other is still connecting
C33_Witness ==
    \E a, b \in DOMAIN connections :
        /\ a # b
        /\ connections[a].state = "Tunneling"
        /\ hist[a].tun # <<>>
        /\ connections[b].state = "Connecting"
        /\ connections[b].target

\* the responses of the resolver that wait in the DNS socket and that
\* handle_responses would parse
QueuedResponses ==
    {dns_inbox[j] : j \in {x \in 1..Len(dns_inbox) :
                              /\ dns_inbox[x].src = "resolver"
                              /\ dns_inbox[x].wellformed}}

\* C34: a response that waits in the DNS socket answers a query that was sent
\* before the response arrived, so the pending request it will be applied
\* to, the one recorded under its id, is the one that was recorded under that
\* id when it arrived: no step records a request of another connection under
\* the id of a response that is already waiting.
C34_ResponseAnswersOwnQuery ==
    [][\A d \in QueuedResponses :
          (dns_inbox' = dns_inbox /\ d.id \in DOMAIN pending_requests') =>
              /\ d.id \in DOMAIN pending_requests
              /\ pending_requests'[d.id].conn_id = pending_requests[d.id].conn_id]_vars

\* what the proxy has read from the client of connection i before the tunnel
ControlBytes(i) == hist[i].hs \o hist[i].req

\* the length of the greeting that starts s: VER, NMETHODS, METHODS
GreetingLen(s) == 2 + s[2]

\* the length of the request that starts s: ten bytes for an IPv4 address,
\* seven and the name for a domain
RequestLen(s) == IF s[4] = ATYP_DOMAIN THEN 7 + s[5] ELSE 10

\* what follows the first n elements of s
After(s, n) == SubSeq(s, n + 1, Len(s))

\* in state Request the buffer holds what was read after the greeting
GreetingTailKept ==
    \A i \in DOMAIN connections :
        connections[i].state = "Request" =>
            connections[i].client_buf =
                After(ControlBytes(i), GreetingLen(ControlBytes(i)))

\* once the request is parsed, what was read after it, followed by what is
\* read in the tunnel, is what the target has received followed by what is
\* buffered for it
RequestTailKept ==
    \A i \in DOMAIN connections :
        connections[i].state \in {"Resolving", "Connecting", "Tunneling"} =>
            LET request == After(ControlBytes(i), GreetingLen(ControlBytes(i)))
                received == IF i \in DOMAIN tsock THEN tsock[i].rx ELSE <<>>
            IN  After(request, RequestLen(request)) \o hist[i].tun =
                    received \o connections[i].client_buf
                             \o connections[i].client_to_target

\* C35: no byte read from the client is dropped at a frame boundary: the
\* bytes read with the end of the greeting are in the buffer that the request
\* is parsed from, and the bytes read with the end of the request reach the
\* target or are buffered for it.
C35_NoByteLostAtFrameBoundary ==
    GreetingTailKept /\ RequestTailKept

\* the sequences of control frames a client can have been sent
ReplySequences ==
    {<<>>, <<create_auth_response>>,
     <<create_auth_response, create_success_response>>,
     <<create_auth_response, create_refused_response>>}

\* C36: what a client has received starts with the control frames written to
\* it, which are nothing, the auth response, or the auth response followed by
\* one reply, success or refused; what it has received after them is a
\* prefix of what was read from the target, and nothing is read from the
\* target or relayed to the client unless the reply was success.
C36_OneReplyAfterAuth ==
    \A i \in DOMAIN hist :
        /\ hist[i].frames \in ReplySequences
        /\ IsPrefix(Flatten(hist[i].frames), csock[i].rx)
        /\ IsPrefix(RelayedToClient(i), hist[i].t_read)
        /\ (RelayedToClient(i) # <<>> \/ hist[i].t_read # <<>>) =>
              hist[i].frames = <<create_auth_response, create_success_response>>
        /\ i \in DOMAIN connections =>
              /\ connections[i].target_to_client # <<>> =>
                    hist[i].frames = <<create_auth_response, create_success_response>>
              /\ connections[i].state = "Tunneling" <=>
                    hist[i].frames = <<create_auth_response, create_success_response>>

\* a client has received the auth response, the success reply and then bytes
\* of the target
C36_Witness ==
    \E i \in DOMAIN hist :
        /\ hist[i].frames = <<create_auth_response, create_success_response>>
        /\ RelayedToClient(i) = TargetPayload
        /\ csock[i].rx = create_auth_response \o create_success_response \o TargetPayload

\* the events of the batch being dispatched whose token is no longer in the
\* token index
StaleEvents ==
    {batch[j] : j \in {x \in 1..Len(batch) :
                          /\ batch[x].token \notin {SERVER, DNS}
                          /\ batch[x].token \notin DOMAIN token_map}}

\* C37: handling an event whose token is no longer in the index changes
\* nothing, whatever the sockets would have done, and the step of the loop
\* that dispatches it does nothing but the sweep at the end of the batch; the
\* token of an event is below next_token, a token stays with its connection
\* as long as it is in the index, and a token that enters the index is one
\* that was never handed out before, so a stale token never comes to denote
\* another connection.
C37_StaleEventsIgnored ==
    [][/\ \A e \in StaleEvents :
             \A k \in 1..BUFFER_SIZE, o \in upstream \cup {NoOutcome},
                sent \in BOOLEAN, n \in 0..BUFFER_SIZE :
                 handle_connection_event(World, now, e, k, o, sent, n) = World
       /\ (batch # <<>> /\ Head(batch) \in StaleEvents /\ batch' = Tail(batch)) =>
             World' = EndEvent(World, batch)
       /\ \A j \in 1..Len(batch) : batch[j].token < next_token
       /\ \A t \in DOMAIN token_map : t < next_token
       /\ next_token' >= next_token
       /\ \A t \in DOMAIN token_map \cap DOMAIN token_map' :
             token_map'[t] = token_map[t]
       /\ DOMAIN token_map' \ DOMAIN token_map \subseteq
             next_token..(next_token' - 1)]_vars

\* an event of the batch is for the token of a connection that was torn
\* down, while another connection is live
C37_Witness ==
    /\ StaleEvents # {}
    /\ DOMAIN connections # {}
    /\ DOMAIN hist \ DOMAIN connections # {}

\* the index entries the live connections call for
ExpectedIndex ==
    {<<connections[i].client_token, <<i, "Client">>>> : i \in DOMAIN connections}
    \cup {<<connections[i].target_token, <<i, "Target">>>> :
            i \in {j \in DOMAIN connections : connections[j].target}}

\* C38: the token index holds the client token of every live connection,
\* mapped to the connection's id and Client, the target token of every live
\* connection that has a target socket, mapped to its id and Target, and
\* nothing else; in particular every entry names a live connection, and the
\* tokens of the live connections are distinct and are not the listener's or
\* the DNS socket's.
C38_TokenIndexConsistent ==
    /\ {<<t, token_map[t]>> : t \in DOMAIN token_map} = ExpectedIndex
    /\ \A t \in DOMAIN token_map : token_map[t][1] \in DOMAIN connections
    /\ Cardinality(ExpectedIndex) =
          Cardinality(DOMAIN connections) +
          Cardinality({j \in DOMAIN connections : connections[j].target})
    /\ DOMAIN token_map \cap {SERVER, DNS} = {}
    /\ \A i \in DOMAIN connections :
          ~connections[i].target => connections[i].target_token = NoToken

\* two connections are live, each with a client token and a target token in
\* the index
C38_Witness ==
    /\ Cardinality(DOMAIN connections) = 2
    /\ \A i \in DOMAIN connections :
          /\ connections[i].target
          /\ token_map[connections[i].client_token] = <<i, "Client">>
          /\ token_map[connections[i].target_token] = <<i, "Target">>
    /\ Cardinality(DOMAIN token_map) = 4

\* the ids under which a step records a request
Recorded ==
    {q \in DOMAIN pending_requests' :
        q \notin DOMAIN pending_requests \/ pending_requests'[q] # pending_requests[q]}

\* C39: a DNS event is applied to a connection only while it is in
\* Resolving, and at most once: a request is recorded for a connection only
\* by the step that takes it from Request, when it has had no DNS event and
\* has no request pending; a live connection with a pending request is in
\* Resolving; a step that applies a DNS event to a connection finds it in
\* Resolving and leaves no request pending for it; and neither draining the
\* DNS socket nor the timeout sweep touches a connection that is in another
\* state.
C39_DnsEventsOnlyWhileResolving ==
    [][/\ \A i \in DOMAIN hist :
             /\ Len(hist[i].dns) <= 1
             /\ Cardinality(PendingOf(i)) <= 1
             /\ (i \in DOMAIN connections /\ PendingOf(i) # {}) =>
                   connections[i].state = "Resolving"
             /\ hist[i].dns # <<>> => PendingOf(i) = {}
             /\ hist'[i].dns # hist[i].dns =>
                   /\ i \in DOMAIN connections
                   /\ connections[i].state = "Resolving"
                   /\ PendingOf(i) # {}
                   /\ \A q \in DOMAIN pending_requests' :
                         pending_requests'[q].conn_id # i
       /\ \A q \in Recorded :
             LET i == pending_requests'[q].conn_id
             IN  /\ i \in DOMAIN connections
                 /\ connections[i].state = "Request"
                 /\ hist[i].dns = <<>>
                 /\ PendingOf(i) = {}
                 /\ connections'[i].state = "Resolving"
       /\ \A i \in DOMAIN connections :
             connections[i].state # "Resolving" =>
                 /\ \A o \in upstream : Untouched(handle_dns_socket(World, o), i)
                 /\ Untouched(sweep(World, now), i)]_vars

\* a connection has had its one DNS event, Resolved, and has one target
\* socket, while another connection is live and not in Resolving
C39_Witness ==
    \E i, j \in DOMAIN connections :
        /\ i # j
        /\ hist[i].dns = <<"Resolved">>
        /\ connections[i].state \in {"Connecting", "Tunneling"}
        /\ connections[i].target
        /\ connections[j].state \in {"Connecting", "Tunneling"}

\* the moves of ClientState the handlers make
ForwardMoves ==
    {<<"Handshake", "Request">>, <<"Request", "Resolving">>,
     <<"Request", "Connecting">>, <<"Resolving", "Connecting">>,
     <<"Connecting", "Tunneling">>}

\* the connections that wait for the resolver or for the target
Waiting ==
    {i \in DOMAIN connections : connections[i].state \in {"Resolving", "Connecting"}}

\* C40: a step leaves the state of a connection as it is or moves it along
\* Handshake, Request, Resolving or Connecting, Connecting, Tunneling, so
\* Tunneling is entered from Connecting only; and for a connection in
\* Resolving or Connecting, handling a Readable event of its client token
\* changes nothing at all, whatever has arrived, and no step takes a byte
\* from its client socket or records a byte as read from its client.
C40_StateMovesForward ==
    [][/\ \A i \in DOMAIN connections \cap DOMAIN connections' :
             \/ connections'[i].state = connections[i].state
             \/ <<connections[i].state, connections'[i].state>> \in ForwardMoves
       /\ \A i \in DOMAIN connections' \ DOMAIN connections :
             connections'[i].state = "Handshake"
       /\ \A i \in Waiting :
             /\ \A k \in 1..BUFFER_SIZE, o \in upstream \cup {NoOutcome},
                   sent \in BOOLEAN :
                     handle_connection_event(World, now, ClientReadable(i),
                                             k, o, sent, 0) = World
             /\ i \in DOMAIN connections' =>
                   /\ IsPrefix(csock[i].tx, csock'[i].tx)
                   /\ hist'[i].hs = hist[i].hs
                   /\ hist'[i].req = hist[i].req
                   /\ hist'[i].tun = hist[i].tun
                   /\ connections'[i].client_buf = connections[i].client_buf
                   /\ connections'[i].client_to_target = connections[i].client_to_target]_vars

\* a connection is in Resolving while bytes of its client wait to be read and
\* poll reports its client token readable
C40_Witness ==
    \E i \in DOMAIN connections :
        /\ connections[i].state = "Resolving"
        /\ csock[i].tx = Payload
        /\ ClientReadable(i) \in ReadyEvents

====
